---- MODULE Spec2Model ----
(***************************************************************************)
(* Trade-execution pipeline of the Telegram/MT5 trading assistant:         *)
(* the file-backed CommandQueue (engine/command_queue.py), the             *)
(* TradeEngineWorker poll loop (engine/trade_engine_worker.py), the parts  *)
(* of MT5Adapter it drives (engine/mt5_adapter.py), the trade ledger       *)
(* (database/db_manager.py) and the NotificationQueue                      *)
(* (engine/notification_queue.py).                                         *)
(*                                                                         *)
(* The queue directory, the ledger and the notification directory are      *)
(* persistent; everything a Python process holds in memory is lost when    *)
(* that process crashes.                                                   *)
(***************************************************************************)
EXTENDS Integers, Sequences, FiniteSets, TLC

(***************************************************************************)
(* Bounds of the model.                                                    *)
(***************************************************************************)
\* number of enqueue calls explored (each call draws a fresh queue id)
MaxCmds == 2
\* number of enqueue calls explored in the runs that include the worker
MaxWorkerCmds == 1
\* number of commands enqueued in the runs that follow the queue ids
MaxStamped == 3
\* number of commands handed to process_command in the runs that follow
\* execute_trade_command call by call
MaxExecCmds == 2
\* number of NotificationQueue.enqueue calls explored
MaxNotifs == 2
\* seconds of wall-clock time explored by the notification runs
MaxSecond == 2
\* successful sends of one notification explored (it is sent again after
\* every poll that could not remove it)
MaxDeliveries == 2

(***************************************************************************)
(* Program constants.                                                      *)
(***************************************************************************)
\* mt5_adapter.py:93  max_retries = 3
max_retries == 3

\* Python's None for ids: `if trade_id:` / `if telegram_id and trade_id:` treat
\* None and 0 alike, so one falsy value stands for both.
None == 0

\* queue ids: f"{utc second}_{uuid4().hex[:8]}"; each enqueue call draws a fresh
\* one, here the index of the call.
QueueIds == 1..MaxCmds

\* the processes that call CommandQueue.dequeue: the worker, and one more
\* consumer running against the same directory
WorkerCaller == "worker"
Callers == {WorkerCaller, "other"}

(***************************************************************************)
(* Trade commands.  The payload is the dict built by the chat layer        *)
(* (bot/telegram_bot.py:599-611) plus the trade_id of its ledger row.      *)
(***************************************************************************)
Templates ==
  { [telegram_id |-> 7, order_type |-> "LIMIT_BUY",  entry |-> 20, sl |-> 19, tp |-> 23, risk_usd |-> 50, has_trade |-> TRUE],
    [telegram_id |-> 7, order_type |-> "LIMIT_BUY",  entry |-> 20, sl |-> 21, tp |-> 23, risk_usd |-> 50, has_trade |-> TRUE],
    [telegram_id |-> None, order_type |-> "LIMIT_SELL", entry |-> 20, sl |-> 22, tp |-> 16, risk_usd |-> 50, has_trade |-> TRUE],
    [telegram_id |-> 7, order_type |-> "LIMIT_SELL", entry |-> 20, sl |-> 22, tp |-> 16, risk_usd |-> 50, has_trade |-> FALSE] }

\* the payloads of the runs that look at the queue alone
QueueTemplates == {t \in Templates : t.telegram_id # None /\ t.has_trade}

\* the command enqueued by the i-th call: the ledger row created for it
\* (create_trade autoincrements) has id i
MakeCommand(t, i) ==
  [trade_id |-> IF t.has_trade THEN i ELSE None,
   telegram_id |-> t.telegram_id,
   order_type |-> t.order_type,
   entry |-> t.entry, sl |-> t.sl, tp |-> t.tp,
   risk_usd |-> t.risk_usd]

NoCommand == [trade_id |-> None, telegram_id |-> None, order_type |-> "", entry |-> 0, sl |-> 0, tp |-> 0, risk_usd |-> 0]

(***************************************************************************)
(* The queue directory: file name -> content.                              *)
(***************************************************************************)
TmpName(id) == <<"tmp", id>>      \* queue_dir / f".{queue_id}.tmp"

\* a final file named by the second of the call alone: every call of one
\* second writes the same file
JsonNameBySecond(id) == <<"json", 1>>

JsonName(id) == <<"json", id>>    \* queue_dir / f"{queue_id}.json"
FileNames == {TmpName(id) : id \in QueueIds} \cup {JsonName(id) : id \in QueueIds}

NoFile == [bytes |-> "none"]
EmptyFile == [bytes |-> "empty"]
PartialFile == [bytes |-> "partial"]

\* queue_command of enqueue (queued_at, a timestamp, is left out)
Envelope(id, cmd) == [queue_id |-> id, status |-> "pending", command |-> cmd]

\* JSON text of a value: a number token, a string token
JsonNum(n) == <<"num", n>>
JsonStr(x) == <<"str", x>>

\* json.dump(queue_command, f, indent=2): the JSON object written, member by
\* member (queue ids and names are strings, prices and ids numbers)
JsonDump(env) ==
  [queue_id |-> JsonStr(env.queue_id),
   status |-> JsonStr(env.status),
   command |-> [trade_id |-> JsonNum(env.command.trade_id),
                telegram_id |-> JsonNum(env.command.telegram_id),
                order_type |-> JsonStr(env.command.order_type),
                entry |-> JsonNum(env.command.entry),
                sl |-> JsonNum(env.command.sl),
                tp |-> JsonNum(env.command.tp),
                risk_usd |-> JsonNum(env.command.risk_usd)]]

\* json.load(f): the dict parsed from the JSON object
JsonLoad(text) ==
  [queue_id |-> text.queue_id[2],
   status |-> text.status[2],
   command |-> [trade_id |-> text.command.trade_id[2],
                telegram_id |-> text.command.telegram_id[2],
                order_type |-> text.command.order_type[2],
                entry |-> text.command.entry[2],
                sl |-> text.command.sl[2],
                tp |-> text.command.tp[2],
                risk_usd |-> text.command.risk_usd[2]]]

\* a file holding the whole json.dump of an envelope
CompleteFile(env) == [bytes |-> "complete", data |-> JsonDump(env)]

VARIABLES
  dir,          \* queue directory: FileNames -> file content (NoFile = absent)
  enq,          \* the enqueue call in progress in the producer process
  nextId,       \* number of queue ids drawn so far
  deq,          \* per caller: the dequeue call in progress
  lastEnq,      \* history: the enqueue call that ended last: its id, how it ended, whether an I/O fault hit it
  deqLog,       \* history: per queue id, the number of dequeue calls that returned its envelope
  crashSurvived \* history: a process crashed and restarted while a command was pending

queueVars == <<dir, enq, nextId, deq, lastEnq, deqLog, crashSurvived>>

VARIABLES
  wpc,        \* where the worker process is in run() / process_command()
  running,    \* TradeEngineWorker.running
  pendingIds, \* pending_ids of the current poll
  idx,        \* position of the for loop in pendingIds
  cur,        \* queue_command being processed
  result,     \* result of execute_trade_command
  connected,  \* MT5Adapter.connected
  termInit,   \* the MetaTrader5 session of the worker process is initialized
  dbConn,     \* DatabaseManager.conn: "none", "open" or "closed"
  tradeStatus,\* ledger: trades.status and trades.mt5_ticket per trade id
  notifs,     \* notification directory: the notifications written
  hist,       \* history per queue id: order_send calls, acceptance, ledger updates, notifications
  signalled,  \* history: a stop signal was delivered to the worker process
  stopTorn,   \* history: the signal handler's stop() disconnected the terminal or closed the database
  crashedMid  \* history: the worker process was killed inside a command, after its order_send

workerVars == <<wpc, running, pendingIds, idx, cur, result, connected, termInit,
                dbConn, tradeStatus, notifs, hist, signalled, stopTorn, crashedMid>>

VARIABLES
  sent,       \* history: per queue id, the command handed to the enqueue call that drew it
  enqOk       \* history: the queue ids that an enqueue call has returned to its caller

histVars == <<sent, enqOk>>

VARIABLES
  now,        \* wall clock of the notification runs, in seconds
  nstore,     \* notification directory: notification id -> serial of the notification its *.json file holds (0 = no file)
  ncalls,     \* number of NotificationQueue.enqueue calls made
  nqueued,    \* history: serials of the notifications whose enqueue call returned
  bpc,        \* where the delivery job (poll_notifications) is
  bsnap,      \* the list get_pending returned to the delivery job
  bidx,       \* position of its for loop
  delivered,  \* history: per serial, the number of send_message calls that succeeded
  mark        \* history: the mark_sent call made last (id, value returned), the ids and serials removed by mark_sent

notifVars == <<now, nstore, ncalls, nqueued, bpc, bsnap, bidx, delivered, mark>>

VARIABLES
  termAcct,   \* the account the live MetaTrader5 session is logged in to (None without a session)
  envLogin,   \* MT5_LOGIN of the process environment (None when unset)
  envPw,      \* MT5_PASSWORD and MT5_SERVER are both set
  lastOp,     \* history: the adapter operation that returned last, its arguments, terminal calls and result
  prevOp      \* history: the operation before it

adapterVars == <<termAcct, envLogin, envPw, lastOp, prevOp>>

VARIABLES
  calc,       \* the call of validate_sl_position / calculate_volume made last: arguments and value returned
  exec,       \* execute_trade_command and the rest of process_command for one command after the other
  stamp       \* the queue directory by the names of its files: clock, files, order of the enqueues, last list_pending

calcVars == <<calc, exec, stamp>>

auxVars == <<histVars, notifVars, adapterVars, calcVars>>

vars == <<queueVars, workerVars, auxVars>>

Exists(name) == dir[name] # NoFile

\* glob("*") instead of glob("*.json")
GlobAny(name) == name[1] \in {"json", "tmp"}

\* Path.glob("*.json"): the final files, never the dot-prefixed .tmp files
GlobJson(name) == name[1] = "json"

RECURSIVE SortedSeq(_)
SortedSeq(S) ==
  IF S = {} THEN <<>>
  ELSE LET m == CHOOSE x \in S : \A y \in S : x <= y
       IN <<m>> \o SortedSeq(S \ {m})

\* the stems of the files glob("*.json") yields
PendingStems == {n[2] : n \in {f \in FileNames : Exists(f) /\ GlobJson(f)}}

\* list_pending: [f.stem for f in sorted(glob("*.json"))]
ListPending == SortedSeq(PendingStems)

\* get_pending_count: len(list(glob("*.json")))
GetPendingCount == Cardinality({f \in FileNames : Exists(f) /\ GlobJson(f)})

IdleEnq == [pc |-> "idle", id |-> None, cmd |-> NoCommand, fault |-> FALSE]
IdleDeq == [pc |-> "idle", id |-> None, data |-> Envelope(None, NoCommand), found |-> FALSE]
NoResult == [success |-> FALSE, ticket |-> None, error |-> ""]
NoHist == [trade_id |-> None, telegram_id |-> None, sends |-> 0, accepted |-> FALSE, persists |-> 0, notifs |-> 0, returned |-> FALSE, lost |-> FALSE]
NoLog == [id |-> None, outcome |-> "none", fault |-> FALSE, cleaned |-> FALSE]

QueueInit ==
  /\ dir = [n \in FileNames |-> NoFile]
  /\ enq = IdleEnq
  /\ nextId = 0
  /\ deq = [c \in Callers |-> IdleDeq]
  /\ lastEnq = NoLog
  /\ deqLog = [id \in QueueIds |-> 0]
  /\ crashSurvived = FALSE

(***************************************************************************)
(* CommandQueue.enqueue, one action per file-system step.                  *)
(***************************************************************************)
\* lines 61-74: draw the queue id, build queue_command, name the two files
EnqueueStart(t) ==
  /\ enq.pc = "idle"
  /\ nextId < MaxCmds
  /\ LET id == nextId + 1
         cmd == MakeCommand(t, id)
     IN /\ enq' = [pc |-> "open", id |-> id, cmd |-> cmd, fault |-> FALSE]
        /\ nextId' = id
  /\ UNCHANGED <<dir, deq, lastEnq, deqLog, crashSurvived>>

\* line 78: open(temp_file, 'w') creates the empty temporary file, or raises
EnqueueOpen ==
  /\ enq.pc = "open"
  /\ \/ /\ dir' = [dir EXCEPT ![TmpName(enq.id)] = EmptyFile]
        /\ enq' = [enq EXCEPT !.pc = "dump"]
     \/ /\ enq' = [enq EXCEPT !.pc = "except", !.fault = TRUE]
        /\ UNCHANGED dir
  /\ UNCHANGED <<nextId, deq, lastEnq, deqLog, crashSurvived>>

\* line 79: json.dump writes the envelope piece by piece; leaving the with
\* block closes the file; a write may raise and leave a partial file
EnqueueDump ==
  /\ enq.pc = "dump"
  /\ \/ /\ dir[TmpName(enq.id)] = EmptyFile
        /\ dir' = [dir EXCEPT ![TmpName(enq.id)] = PartialFile]
        /\ UNCHANGED enq
     \/ /\ dir[TmpName(enq.id)] = PartialFile
        /\ dir' = [dir EXCEPT ![TmpName(enq.id)] = CompleteFile(Envelope(enq.id, enq.cmd))]
        /\ enq' = [enq EXCEPT !.pc = "rename"]
     \/ /\ enq' = [enq EXCEPT !.pc = "except", !.fault = TRUE]
        /\ UNCHANGED dir
  /\ UNCHANGED <<nextId, deq, lastEnq, deqLog, crashSurvived>>

\* a rename that puts the file in place and raises
EnqueueRenameRaises ==
  /\ enq.pc = "rename"
  /\ dir' = [dir EXCEPT ![JsonName(enq.id)] = dir[TmpName(enq.id)],
                        ![TmpName(enq.id)] = NoFile]
  /\ enq' = [enq EXCEPT !.pc = "except", !.fault = TRUE]
  /\ UNCHANGED <<nextId, deq, lastEnq, deqLog, crashSurvived>>

\* line 82: temp_file.rename(final_file), atomic, or raises
EnqueueRename ==
  /\ enq.pc = "rename"
  /\ \/ /\ dir' = [dir EXCEPT ![JsonName(enq.id)] = dir[TmpName(enq.id)],
                              ![TmpName(enq.id)] = NoFile]
        /\ enq' = [enq EXCEPT !.pc = "return"]
     \/ /\ enq' = [enq EXCEPT !.pc = "except", !.fault = TRUE]
        /\ UNCHANGED dir
  /\ UNCHANGED <<nextId, deq, lastEnq, deqLog, crashSurvived>>

\* lines 84-85: return queue_id
EnqueueReturn ==
  /\ enq.pc = "return"
  /\ lastEnq' = [id |-> enq.id, outcome |-> "returned", fault |-> enq.fault, cleaned |-> FALSE]
  /\ enq' = IdleEnq
  /\ UNCHANGED <<dir, nextId, deq, deqLog, crashSurvived>>

\* the handler without its clean-up
EnqueueExceptKeep == UNCHANGED dir

\* lines 87-92: remove the temporary file if it exists, re-raise
EnqueueExceptUnlink ==
  IF Exists(TmpName(enq.id))
  THEN dir' = [dir EXCEPT ![TmpName(enq.id)] = NoFile]
  ELSE UNCHANGED dir

EnqueueExcept ==
  /\ enq.pc = "except"
  /\ EnqueueExceptUnlink
  /\ lastEnq' = [id |-> enq.id, outcome |-> "raised", fault |-> enq.fault,
                 cleaned |-> Exists(TmpName(enq.id)) /\ dir'[TmpName(enq.id)] = NoFile]
  /\ enq' = IdleEnq
  /\ UNCHANGED <<nextId, deq, deqLog, crashSurvived>>

\* a start-up that recreates the directory
EnsureQueueDirectoryFresh == dir' = [n \in FileNames |-> NoFile]

\* _ensure_queue_directory, run by CommandQueue.__init__ of every new
\* process: mkdir(parents=True, exist_ok=True) touches no file
EnsureQueueDirectory == dir' = dir

\* the producer process is killed: the call in progress is lost, the files
\* stay; the restarted process builds a new CommandQueue on the same directory
ProducerCrash ==
  /\ enq' = IdleEnq
  /\ EnsureQueueDirectory
  /\ crashSurvived' = (crashSurvived \/ ListPending # <<>>)
  /\ UNCHANGED <<nextId, deq, lastEnq, deqLog>>

(***************************************************************************)
(* CommandQueue.dequeue, one action per file-system step, per caller.      *)
(***************************************************************************)
\* line 117: file_path = queue_dir / f"{queue_id}.json"; a caller asks for
\* an id that some enqueue call has drawn
DequeueCall(c, id) ==
  /\ deq[c].pc = "idle"
  /\ id <= nextId
  /\ deq' = [deq EXCEPT ![c] = [IdleDeq EXCEPT !.pc = "exists", !.id = id]]
  /\ UNCHANGED <<dir, enq, nextId, lastEnq, deqLog, crashSurvived>>

\* lines 120-122: if not file_path.exists(): return None
DeqExists(c) ==
  /\ deq[c].pc = "exists"
  /\ deq' = [deq EXCEPT ![c].pc = IF Exists(JsonName(deq[c].id)) THEN "read" ELSE "ret"]
  /\ UNCHANGED <<dir, enq, nextId, lastEnq, deqLog, crashSurvived>>

\* lines 125-126: open + json.load; a missing or unparsable file raises, and
\* the except clause (134-136) returns None
DeqRead(c) ==
  /\ deq[c].pc = "read"
  /\ LET f == dir[JsonName(deq[c].id)]
     IN deq' = [deq EXCEPT ![c] =
                  IF f.bytes = "complete"
                  THEN [@ EXCEPT !.pc = "unlink", !.data = JsonLoad(f.data)]
                  ELSE [@ EXCEPT !.pc = "ret"]]
  /\ UNCHANGED <<dir, enq, nextId, lastEnq, deqLog, crashSurvived>>

\* unlink(missing_ok=True): no exception when another caller removed the file
DeqUnlinkMissingOk(c) ==
  /\ deq[c].pc = "unlink"
  /\ dir' = [dir EXCEPT ![JsonName(deq[c].id)] = NoFile]
  /\ deq' = [deq EXCEPT ![c].pc = "ret", ![c].found = TRUE]
  /\ UNCHANGED <<enq, nextId, lastEnq, deqLog, crashSurvived>>

\* a dequeue that returns the envelope and leaves the file in place
DeqUnlinkKeepsFile(c) ==
  /\ deq[c].pc = "unlink"
  /\ deq' = [deq EXCEPT ![c].pc = "ret", ![c].found = TRUE]
  /\ UNCHANGED <<dir, enq, nextId, lastEnq, deqLog, crashSurvived>>

\* line 129: file_path.unlink(); FileNotFoundError when another caller
\* removed the file first, caught by lines 134-136 (return None);
\* lines 131-132: otherwise the envelope read is the result
DeqUnlink(c) ==
  /\ deq[c].pc = "unlink"
  /\ IF Exists(JsonName(deq[c].id))
     THEN /\ dir' = [dir EXCEPT ![JsonName(deq[c].id)] = NoFile]
          /\ deq' = [deq EXCEPT ![c].pc = "ret", ![c].found = TRUE]
     ELSE /\ deq' = [deq EXCEPT ![c].pc = "ret"]
          /\ UNCHANGED dir
  /\ UNCHANGED <<enq, nextId, lastEnq, deqLog, crashSurvived>>

\* lines 131-136: the call returns queue_command or None to its caller (the
\* worker receives its result in RunDequeued)
DeqReturn(c) ==
  /\ deq[c].pc = "ret"
  /\ deqLog' = IF deq[c].found
               THEN [deqLog EXCEPT ![deq[c].id] = @ + 1]
               ELSE deqLog
  /\ deq' = [deq EXCEPT ![c] = IdleDeq]
  /\ UNCHANGED <<dir, enq, nextId, lastEnq, crashSurvived>>

\* the process of a caller other than the worker is killed
ConsumerCrash(c) ==
  /\ deq[c].pc # "idle"
  /\ deq' = [deq EXCEPT ![c] = IdleDeq]
  /\ EnsureQueueDirectory
  /\ crashSurvived' = (crashSurvived \/ ListPending # <<>>)
  /\ UNCHANGED <<enq, nextId, lastEnq, deqLog>>

\* clear_all: unlink every *.json
ClearAll ==
  /\ \E f \in FileNames : Exists(f) /\ GlobJson(f)
  /\ dir' = [f \in FileNames |-> IF GlobJson(f) THEN NoFile ELSE dir[f]]
  /\ UNCHANGED <<enq, nextId, deq, lastEnq, deqLog, crashSurvived>>

(***************************************************************************)
(* The queue alone: one producer process, two consumers, crashes.          *)
(***************************************************************************)
WorkerInit(pc) ==
  /\ wpc = pc
  /\ running = FALSE
  /\ pendingIds = <<>>
  /\ idx = 0
  /\ cur = Envelope(None, NoCommand)
  /\ result = NoResult
  /\ connected = FALSE
  /\ termInit = FALSE
  /\ dbConn = "none"
  /\ tradeStatus = [i \in QueueIds |-> [status |-> "pending", ticket |-> None]]
  /\ notifs = {}
  /\ hist = [i \in QueueIds |-> NoHist]
  /\ signalled = FALSE
  /\ stopTorn = FALSE
  /\ crashedMid = FALSE

(***************************************************************************)
(* NotificationQueue (engine/notification_queue.py) and the delivery job   *)
(* of the chat layer (TradingBot.poll_notifications).                      *)
(***************************************************************************)
NotifRecipients == {7, 10}
NotifTrades == {1, 2}
NotifSerials == 1..MaxNotifs

\* notif_id = f"{utc second}_{telegram_id}_{trade_id}" (line 67)
NotifId(second, telegram_id, trade_id) == <<second, telegram_id, trade_id>>
NotifIds == {NotifId(t, r, tr) : t \in 1..MaxSecond, r \in NotifRecipients, tr \in NotifTrades}

\* str(n) for 0 <= n < 100, as character codes ('0' = 48)
Digits(n) == IF n < 10 THEN <<48 + n>> ELSE <<48 + (n \div 10), 48 + (n % 10)>>

\* the file name f"{notif_id}.json" as character codes: the timestamp has a
\* fixed width; '_' = 95, '.' = 46 (the suffix json follows in every name)
NotifFileName(id) == <<id[1]>> \o <<95>> \o Digits(id[2]) \o <<95>> \o Digits(id[3]) \o <<46>>

\* a < b for two strings, as sorted() compares the paths
RECURSIVE StrLess(_, _)
StrLess(a, b) ==
  IF a = <<>> THEN b # <<>>
  ELSE IF b = <<>> THEN FALSE
  ELSE IF Head(a) # Head(b) THEN Head(a) < Head(b)
  ELSE StrLess(Tail(a), Tail(b))

RECURSIVE SortedByName(_)
SortedByName(S) ==
  IF S = {} THEN <<>>
  ELSE LET m == CHOOSE x \in S : \A y \in S \ {x} : StrLess(NotifFileName(x), NotifFileName(y))
       IN <<m>> \o SortedByName(S \ {m})

\* get_pending: the notifications of sorted(glob("*.json")), each with its id
GetPending ==
  LET ids == SortedByName({id \in NotifIds : nstore[id] # 0})
  IN [i \in 1..Len(ids) |-> [notification_id |-> ids[i], serial |-> nstore[ids[i]]]]

NotifPending(j) == \E id \in NotifIds : nstore[id] = j

\* no mark_sent call made yet
NoMark == [flip |-> 0, id |-> NotifId(0, 0, 0), ret |-> FALSE, okIds |-> {}, gone |-> {}]

NotifInit ==
  /\ now = 1
  /\ nstore = [id \in NotifIds |-> 0]
  /\ ncalls = 0
  /\ nqueued = {}
  /\ bpc = "idle"
  /\ bsnap = <<>>
  /\ bidx = 0
  /\ delivered = [j \in NotifSerials |-> 0]
  /\ mark = NoMark

\* line 86: temp_file.rename(final_file) puts the new file under the name,
\* over a file that has the name already
NotifRename(id, serial) ==
  nstore' = [nstore EXCEPT ![id] = serial]

\* NotificationQueue.enqueue (lines 45-98): write the temporary file and
\* rename it, or raise and leave the directory as it was
NotifEnqueue(telegram_id, trade_id) ==
  /\ ncalls < MaxNotifs
  /\ ncalls' = ncalls + 1
  /\ \/ /\ NotifRename(NotifId(now, telegram_id, trade_id), ncalls + 1)
        /\ nqueued' = nqueued \cup {ncalls + 1}
     \/ UNCHANGED <<nstore, nqueued>>
  /\ UNCHANGED <<now, bpc, bsnap, bidx, delivered, mark>>

\* the clock reaches the next second
Tick ==
  /\ now < MaxSecond
  /\ now' = now + 1
  /\ UNCHANGED <<nstore, ncalls, nqueued, bpc, bsnap, bidx, delivered, mark>>

\* poll_notifications line 719: notifications = get_pending()
BotGetPending ==
  /\ bpc = "idle"
  /\ bsnap' = GetPending
  /\ bidx' = 1
  /\ bpc' = "for"
  /\ UNCHANGED <<now, nstore, ncalls, nqueued, delivered, mark>>

\* lines 721-730 and 736-738: next notification; send_message succeeds, or
\* raises and the notification is left for the next poll
BotSend ==
  /\ bpc = "for"
  /\ bidx <= Len(bsnap)
  /\ \/ /\ delivered[bsnap[bidx].serial] < MaxDeliveries
        /\ delivered' = [delivered EXCEPT ![bsnap[bidx].serial] = @ + 1]
        /\ bpc' = "mark"
        /\ UNCHANGED bidx
     \/ /\ bidx' = bidx + 1
        /\ UNCHANGED <<delivered, bpc>>
  /\ UNCHANGED <<now, nstore, ncalls, nqueued, bsnap, mark>>

\* NotificationQueue.mark_sent (lines 125-147): unlink the file of the id if
\* it exists; an unlink that raises leaves it
MarkSent(id) ==
  \E raises \in BOOLEAN :
    LET removed == nstore[id] # 0 /\ ~raises
    IN /\ nstore' = IF removed THEN [nstore EXCEPT ![id] = 0] ELSE nstore
       /\ mark' = [flip |-> 1 - mark.flip, id |-> id, ret |-> removed,
                   okIds |-> IF removed THEN mark.okIds \cup {id} ELSE mark.okIds,
                   gone |-> IF removed THEN mark.gone \cup {nstore[id]} ELSE mark.gone]

\* line 733: mark_sent(notification_id), then the next notification
BotMarkSent ==
  /\ bpc = "mark"
  /\ MarkSent(bsnap[bidx].notification_id)
  /\ bidx' = bidx + 1
  /\ bpc' = "for"
  /\ UNCHANGED <<now, ncalls, nqueued, bsnap, delivered>>

\* the for loop is over; the job ends until the next poll
BotLoopEnd ==
  /\ bpc = "for"
  /\ bidx > Len(bsnap)
  /\ bpc' = "idle"
  /\ bsnap' = <<>>
  /\ bidx' = 0
  /\ UNCHANGED <<now, nstore, ncalls, nqueued, delivered, mark>>

\* the chat process is killed at any point of the job and started again
BotCrash ==
  /\ bpc # "idle"
  /\ bpc' = "idle"
  /\ bsnap' = <<>>
  /\ bidx' = 0
  /\ UNCHANGED <<now, nstore, ncalls, nqueued, delivered, mark>>

\* MT5Adapter.__init__ (connected = False), no operation called yet
NoOp == [op |-> "none", login |-> None, hasPw |-> FALSE, force |-> FALSE, alive |-> FALSE,
         before |-> [init |-> FALSE, conn |-> FALSE, acct |-> None],
         ok |-> FALSE, calls |-> <<>>, connects |-> <<>>, ensured |-> <<>>]
NoPrev == [op |-> "other", ok |-> FALSE, force |-> FALSE]

AdapterInit(login, pw) ==
  /\ termAcct = None
  /\ envLogin = login
  /\ envPw = pw
  /\ lastOp = NoOp
  /\ prevOp = NoPrev

\* the instrument metadata get_symbol_info returns (mt5_adapter.py:200-212),
\* the members execute_trade_command reads; none fetched yet
NoInfo == [trade_tick_value |-> 0, trade_tick_size |-> 0, volume_step |-> 0, volume_min |-> 0, volume_max |-> 0]

\* no call of a calculator made yet
NoCalc == [fn |-> "none", order_type |-> "", entry |-> 0, sl |-> 0, risk_usd |-> 0,
           pip_value |-> 0, info |-> NoInfo, done |-> FALSE, ok |-> FALSE, lots |-> 0]

\* no command handed to process_command yet
NoExec == [pc |-> "idle", n |-> 0,
           command |-> [symbol |-> "", order_type |-> "", entry |-> 0, sl |-> 0, risk_usd |-> 0, volume |-> 0],
           symbol_info |-> NoInfo, earlier |-> NoInfo, volume |-> 0,
           calls |-> <<>>, fetched |-> 0, orders |-> <<>>, refused |-> "", accepted |-> 0,
           result |-> [success |-> FALSE, error |-> "", volume |-> 0, ticket |-> None],
           notified |-> <<>>]

\* the queue directory by the names of its files: clock at the first
\* instant, no file, nothing enqueued, nothing listed
NoStamp == [at |-> 1, files |-> {}, order |-> <<>>, listed |-> <<>>, done |-> FALSE]

CalcInit == calc = NoCalc /\ exec = NoExec /\ stamp = NoStamp

AuxInit ==
  /\ sent = [id \in QueueIds |-> NoCommand]
  /\ enqOk = {}
  /\ NotifInit
  /\ AdapterInit(None, FALSE)
  /\ CalcInit

NotifSpecInit == QueueInit /\ WorkerInit("off") /\ AuxInit

notifRest == <<queueVars, workerVars, histVars, adapterVars, calcVars>>

NotifNext ==
  \/ \E r \in NotifRecipients, tr \in NotifTrades : NotifEnqueue(r, tr) /\ UNCHANGED notifRest
  \/ Tick /\ UNCHANGED notifRest
  \/ BotGetPending /\ UNCHANGED notifRest
  \/ BotSend /\ UNCHANGED notifRest
  \/ BotMarkSent /\ UNCHANGED notifRest
  \/ BotLoopEnd /\ UNCHANGED notifRest
  \/ BotCrash /\ UNCHANGED notifRest

NotifSpec == NotifSpecInit /\ [][NotifNext]_vars

\* NotificationQueue called operation by operation: enqueue, and mark_sent
\* with any id
MarkCall ==
  /\ \E id \in NotifIds : MarkSent(id)
  /\ UNCHANGED <<now, ncalls, nqueued, bpc, bsnap, bidx, delivered>>

MarkNext ==
  \/ \E r \in NotifRecipients, tr \in NotifTrades : NotifEnqueue(r, tr) /\ UNCHANGED notifRest
  \/ Tick /\ UNCHANGED notifRest
  \/ MarkCall /\ UNCHANGED notifRest

MarkSpec == NotifSpecInit /\ [][MarkNext]_vars

\* no worker process
QueueSpecInit == QueueInit /\ WorkerInit("off") /\ AuxInit

QueueNext ==
  \/ \E t \in QueueTemplates : EnqueueStart(t) /\ UNCHANGED <<workerVars, auxVars>>
  \/ EnqueueOpen /\ UNCHANGED <<workerVars, auxVars>>
  \/ EnqueueDump /\ UNCHANGED <<workerVars, auxVars>>
  \/ EnqueueRename /\ UNCHANGED <<workerVars, auxVars>>
  \/ EnqueueReturn /\ UNCHANGED <<workerVars, auxVars>>
  \/ EnqueueExcept /\ UNCHANGED <<workerVars, auxVars>>
  \/ ProducerCrash /\ UNCHANGED <<workerVars, auxVars>>
  \/ \E c \in Callers, id \in QueueIds : DequeueCall(c, id) /\ UNCHANGED <<workerVars, auxVars>>
  \/ \E c \in Callers : DeqExists(c) /\ UNCHANGED <<workerVars, auxVars>>
  \/ \E c \in Callers : DeqRead(c) /\ UNCHANGED <<workerVars, auxVars>>
  \/ \E c \in Callers : DeqUnlink(c) /\ UNCHANGED <<workerVars, auxVars>>
  \/ \E c \in Callers : DeqReturn(c) /\ UNCHANGED <<workerVars, auxVars>>
  \/ \E c \in Callers : ConsumerCrash(c) /\ UNCHANGED <<workerVars, auxVars>>
  \/ ClearAll /\ UNCHANGED <<workerVars, auxVars>>

QueueSpec == QueueSpecInit /\ [][QueueNext]_vars

(***************************************************************************)
(* Enqueue and dequeue calls of one producer and two consumers, each       *)
(* enqueue recorded with the command its caller handed in.                 *)
(***************************************************************************)
RoundTripInit == QueueInit /\ WorkerInit("off") /\ AuxInit

\* enqueue(command): the caller's command is remembered under the id drawn
EnqueueCommand(t) ==
  /\ EnqueueStart(t)
  /\ sent' = [sent EXCEPT ![nextId + 1] = MakeCommand(t, nextId + 1)]

\* return queue_id: the caller has the id
EnqueueReturned ==
  /\ EnqueueReturn
  /\ enqOk' = enqOk \cup {enq.id}

RoundTripNext ==
  \/ \E t \in QueueTemplates : EnqueueCommand(t) /\ UNCHANGED <<workerVars, notifVars, adapterVars, calcVars, enqOk>>
  \/ EnqueueOpen /\ UNCHANGED <<workerVars, auxVars>>
  \/ EnqueueDump /\ UNCHANGED <<workerVars, auxVars>>
  \/ EnqueueRename /\ UNCHANGED <<workerVars, auxVars>>
  \/ EnqueueReturned /\ UNCHANGED <<workerVars, notifVars, adapterVars, calcVars, sent>>
  \/ EnqueueExcept /\ UNCHANGED <<workerVars, auxVars>>
  \/ \E c \in Callers, id \in QueueIds : DequeueCall(c, id) /\ UNCHANGED <<workerVars, auxVars>>
  \/ \E c \in Callers : DeqExists(c) /\ UNCHANGED <<workerVars, auxVars>>
  \/ \E c \in Callers : DeqRead(c) /\ UNCHANGED <<workerVars, auxVars>>
  \/ \E c \in Callers : DeqUnlink(c) /\ UNCHANGED <<workerVars, auxVars>>
  \/ \E c \in Callers : DeqReturn(c) /\ UNCHANGED <<workerVars, auxVars>>

RoundTripSpec == RoundTripInit /\ [][RoundTripNext]_vars

(***************************************************************************)
(* MT5Adapter: the connection calls the worker goes through.               *)
(***************************************************************************)
\* what mt5.account_info() can answer to connect(): nothing, the account
\* asked for (or any account when no login is given), another account
AcctAnswers == {"none", "same", "other"}

\* MT5Adapter.connect: the outcome of one call, from the terminal's answers.
\*   force   force_reconnect
\*   acct    answer of mt5.account_info() (lines 64-79)
\*   nFail   number of mt5.initialize() attempts that fail (lines 96-115)
\*   creds   login, password and server are all set (line 119)
\*   loginOk answer of mt5.login() (lines 120-125)
Connect(force, acct, nFail, creds, loginOk) ==
  IF ~force /\ acct = "same"
  THEN [ok |-> TRUE, init |-> termInit, conn |-> TRUE]
  ELSE LET shut == force \/ acct = "other"      \* lines 76, 82-89: mt5.shutdown()
       IN IF nFail >= max_retries
          THEN [ok |-> FALSE, init |-> IF shut THEN FALSE ELSE termInit, conn |-> connected]
          ELSE IF creds /\ ~loginOk
               THEN [ok |-> FALSE, init |-> FALSE, conn |-> connected]   \* line 124: mt5.shutdown()
               ELSE [ok |-> TRUE, init |-> TRUE, conn |-> TRUE]

\* one connect() call of the worker process; resFail is the result the
\* calling operation hands on when the call fails
AdapterConnect(force, okpc, failpc, resFail) ==
  \E acct \in AcctAnswers, nFail \in 0..max_retries, creds \in BOOLEAN, loginOk \in BOOLEAN :
    /\ acct # "none" => termInit
    /\ LET r == Connect(force, acct, nFail, creds, loginOk)
       IN /\ termInit' = r.init
          /\ connected' = r.conn
          /\ wpc' = IF r.ok THEN okpc ELSE failpc
          /\ result' = IF r.ok THEN result ELSE resFail

\* MT5Adapter.is_connected: account_info() is None or raises -> connected = False
IsConnected(okpc, failpc) ==
  \E healthy \in BOOLEAN :
    IF termInit /\ healthy
    THEN wpc' = okpc /\ UNCHANGED connected
    ELSE wpc' = failpc /\ connected' = FALSE

\* MT5Adapter.disconnect
Disconnect ==
  /\ termInit' = FALSE
  /\ connected' = FALSE

(***************************************************************************)
(* MT5Adapter operation by operation, with the calls each one makes to the *)
(* MetaTrader5 module.  An operation is computed from the state it starts  *)
(* in, [init, conn, acct] (session initialized, MT5Adapter.connected,      *)
(* account of the session), and from the terminal's answers.               *)
(***************************************************************************)
\* MT5_LOGIN: unset, the account the terminal has saved, another account
LoginArgs == {None, 1, 2}

AdapterState == [init |-> termInit, conn |-> connected, acct |-> termAcct]

\* the account of the session the terminal opens when initialize() is not
\* followed by a login ("using existing MT5 session", line 128)
SavedAccount == 1

\* the terminal's answers to one connect / ensure_connected:
\*   alive    mt5.account_info() answers while a session is initialized
\*   nFail    number of mt5.initialize() attempts that fail
\*   loginOk  answer of mt5.login()
ConnAnswers == [alive : BOOLEAN, nFail : 0..max_retries, loginOk : BOOLEAN]
\* the answers drawn for the operations that go through ensure_connected:
\* healthy; lost and reconnected; lost and initialize fails; lost and login fails
Healthy == [alive |-> TRUE, nFail |-> 0, loginOk |-> TRUE]
InitFails == [alive |-> FALSE, nFail |-> max_retries, loginOk |-> TRUE]
EnsureAnswers == {Healthy, InitFails,
                  [alive |-> FALSE, nFail |-> 0, loginOk |-> TRUE],
                  [alive |-> FALSE, nFail |-> 0, loginOk |-> FALSE]}
\* the answers drawn for the ensure_connected calls of nested operations
NestedAnswers == {Healthy, InitFails}

Repeat(x, n) == [i \in 1..n |-> x]
Count(calls, x) == Cardinality({i \in 1..Len(calls) : calls[i] = x})

\* a retry loop that tries once more after the last failure
InitTraceOneMore(nFail) == Repeat("initialize_failed", nFail) \o <<"initialize">>

\* lines 96-115: for attempt in range(1, max_retries + 1): the
\* mt5.initialize() calls made when the first nFail attempts fail
\* ("initialize" is a call that succeeded)
InitTrace(nFail) ==
  IF nFail >= max_retries
  THEN Repeat("initialize_failed", max_retries)
  ELSE Repeat("initialize_failed", nFail) \o <<"initialize">>

IsInitialize(call) == call \in {"initialize", "initialize_failed"}

\* a forced reconnect that goes to initialize() without the shutdown
ShutdownFirstNever(force, switching) == FALSE

\* lines 76, 82-89: mt5.shutdown() before initialize when force_reconnect is
\* set or the session is on another account than the login asked for
ShutdownFirst(force, switching) == force \/ switching

\* login failure that leaves the session open
LoginFailedKeep(st, pre) ==
  [st |-> [init |-> TRUE, conn |-> st.conn, acct |-> st.acct],
   calls |-> pre \o <<"login">>, ok |-> FALSE]

\* lines 121-125: login failed: mt5.shutdown(), return False
LoginFailed(st, pre) ==
  [st |-> [init |-> FALSE, conn |-> st.conn, acct |-> None],
   calls |-> pre \o <<"login", "shutdown">>, ok |-> FALSE]

\* MT5Adapter.connect(login, password, server, force_reconnect) (lines 39-132)
ConnectFrom(st, login, hasPw, force, a) ==
  LET info == IF st.init /\ a.alive THEN st.acct ELSE None        \* mt5.account_info(), line 66
      check == IF force THEN <<>> ELSE <<"account_info">>
      already == ~force /\ info # None /\ (login = None \/ login = info)   \* line 69
      shut == ShutdownFirst(force, ~force /\ info # None /\ ~already)
      pre == check \o (IF shut THEN <<"shutdown">> ELSE <<>>)
                   \o InitTrace(a.nFail)
  IN IF already
     THEN [st |-> [st EXCEPT !.conn = TRUE], calls |-> check, ok |-> TRUE]            \* lines 70-72
     ELSE IF a.nFail >= max_retries
     THEN [st |-> IF shut THEN [init |-> FALSE, conn |-> st.conn, acct |-> None] ELSE st,
           calls |-> pre, ok |-> FALSE]                                                \* line 115
     ELSE IF login # None /\ hasPw                                                     \* line 119
     THEN IF a.loginOk
          THEN [st |-> [init |-> TRUE, conn |-> TRUE, acct |-> login],
                calls |-> pre \o <<"login">>, ok |-> TRUE]
          ELSE LoginFailed(st, pre)
     ELSE [st |-> [init |-> TRUE, conn |-> TRUE, acct |-> SavedAccount],
           calls |-> pre, ok |-> TRUE]                                                 \* lines 127-132

\* a health check that sets the flag from the answer
IsConnectedSets(st, a) ==
  LET healthy == st.init /\ a.alive
  IN [st |-> [st EXCEPT !.conn = healthy], calls |-> <<"account_info">>, ok |-> healthy]

\* MT5Adapter.is_connected (lines 140-159)
IsConnectedFrom(st, a) ==
  LET healthy == st.init /\ a.alive
  IN [st |-> IF healthy THEN st ELSE [st EXCEPT !.conn = FALSE],
      calls |-> <<"account_info">>, ok |-> healthy]

\* an ensure_connected that goes by the connected flag
EnsureConnectedByFlag(st, a) ==
  IF st.conn
  THEN [st |-> st, calls |-> <<>>, ok |-> TRUE, connects |-> <<>>]
  ELSE LET c == ConnectFrom(st, envLogin, envPw, TRUE, a)
       IN [st |-> c.st, calls |-> c.calls, ok |-> c.ok,
           connects |-> <<[force |-> TRUE, ok |-> c.ok]>>]

\* an ensure_connected that reconnects without force_reconnect
EnsureConnectedNoForce(st, a) ==
  LET h == IsConnectedFrom(st, a)
  IN IF h.ok
     THEN [st |-> h.st, calls |-> h.calls, ok |-> TRUE, connects |-> <<>>]
     ELSE LET c == ConnectFrom(h.st, envLogin, envPw, FALSE, a)
          IN [st |-> c.st, calls |-> h.calls \o c.calls, ok |-> c.ok,
              connects |-> <<[force |-> FALSE, ok |-> c.ok]>>]

\* MT5Adapter.ensure_connected (lines 161-172); connects lists the connect()
\* calls it made
EnsureConnectedFrom(st, a) ==
  LET h == IsConnectedFrom(st, a)
  IN IF h.ok
     THEN [st |-> h.st, calls |-> h.calls, ok |-> TRUE, connects |-> <<>>]
     ELSE LET c == ConnectFrom(h.st, envLogin, envPw, TRUE, a)
          IN [st |-> c.st, calls |-> h.calls \o c.calls, ok |-> c.ok,
              connects |-> <<[force |-> TRUE, ok |-> c.ok]>>]

\* the result of a terminal-facing operation: state, terminal calls, value
\* returned ("value" or the operation's failure value), results of the
\* ensure_connected calls made
OpResult(st, calls, ret, ensured) == [st |-> st, calls |-> calls, ret |-> ret, ensured |-> ensured]

\* MT5Adapter.get_symbol_info (lines 174-212); sym is what the terminal knows
\* of the symbol: "none", "visible", "hidden" (symbol_select works), "locked"
GetSymbolInfoFrom(st, a, sym) ==
  LET e == EnsureConnectedFrom(st, a)
  IN IF ~e.ok THEN OpResult(e.st, e.calls, "failure", <<FALSE>>)
     ELSE IF sym = "none" THEN OpResult(e.st, e.calls \o <<"symbol_info">>, "failure", <<TRUE>>)
     ELSE IF sym = "visible" THEN OpResult(e.st, e.calls \o <<"symbol_info">>, "value", <<TRUE>>)
     ELSE OpResult(e.st, e.calls \o <<"symbol_info", "symbol_select">>,
                   IF sym = "hidden" THEN "value" ELSE "failure", <<TRUE>>)

\* MT5Adapter.place_limit_order (lines 232-305)
PlaceLimitOrderFrom(st, a, order_type, done) ==
  LET e == EnsureConnectedFrom(st, a)
  IN IF ~e.ok THEN OpResult(e.st, e.calls, "failure", <<FALSE>>)
     ELSE IF order_type \notin {"LIMIT_BUY", "LIMIT_SELL"} THEN OpResult(e.st, e.calls, "failure", <<TRUE>>)
     ELSE OpResult(e.st, e.calls \o <<"order_send">>, IF done THEN "value" ELSE "failure", <<TRUE>>)

\* MT5Adapter.get_account_info (lines 390-415)
GetAccountInfoFrom(st, a, answered) ==
  LET e == EnsureConnectedFrom(st, a)
  IN IF ~e.ok THEN OpResult(e.st, e.calls, "failure", <<FALSE>>)
     ELSE OpResult(e.st, e.calls \o <<"account_info">>, IF answered THEN "value" ELSE "failure", <<TRUE>>)

\* MT5Adapter.get_pending_orders (lines 417-450); its failure value is []
GetPendingOrdersFrom(st, a, answered) ==
  LET e == EnsureConnectedFrom(st, a)
  IN IF ~e.ok THEN OpResult(e.st, e.calls, "failure", <<FALSE>>)
     ELSE OpResult(e.st, e.calls \o <<"orders_get">>, IF answered THEN "value" ELSE "failure", <<TRUE>>)

\* MT5Adapter.get_order_detail (lines 452-491): the order, then
\* get_symbol_info of its symbol, whose result is only a member of the value
GetOrderDetailFrom(st, a, found, a2, sym) ==
  LET e == EnsureConnectedFrom(st, a)
  IN IF ~e.ok THEN OpResult(e.st, e.calls, "failure", <<FALSE>>)
     ELSE IF ~found THEN OpResult(e.st, e.calls \o <<"orders_get">>, "failure", <<TRUE>>)
     ELSE LET g == GetSymbolInfoFrom(e.st, a2, sym)
          IN OpResult(g.st, e.calls \o <<"orders_get">> \o g.calls, "value", <<TRUE>> \o g.ensured)

\* MT5Adapter.close_pending_order (lines 493-549)
ClosePendingOrderFrom(st, a, a1, found, a2, sym, done) ==
  LET e == EnsureConnectedFrom(st, a)
  IN IF ~e.ok THEN OpResult(e.st, e.calls, "failure", <<FALSE>>)
     ELSE LET d == GetOrderDetailFrom(e.st, a1, found, a2, sym)
          IN IF d.ret = "failure"
             THEN OpResult(d.st, e.calls \o d.calls, "failure", <<TRUE>> \o d.ensured)
             ELSE OpResult(d.st, e.calls \o d.calls \o <<"order_send">>,
                           IF done THEN "value" ELSE "failure", <<TRUE>> \o d.ensured)

\* the operation has returned: the adapter and the terminal are in state st
Returned(st, op) ==
  /\ termInit' = st.init
  /\ connected' = st.conn
  /\ termAcct' = st.acct
  /\ lastOp' = [op EXCEPT !.before = AdapterState]
  /\ prevOp' = IF lastOp.op = "connect" THEN [op |-> "connect", ok |-> lastOp.ok, force |-> lastOp.force] ELSE NoPrev
  /\ UNCHANGED <<envLogin, envPw>>

\* connect(force_reconnect=force); login, password and server are read from
\* the environment (lines 53-58), so they are the same in every call
OpConnect ==
  \E force \in BOOLEAN, a \in ConnAnswers :
    LET r == ConnectFrom(AdapterState, envLogin, envPw, force, a)
    IN Returned(r.st, [NoOp EXCEPT !.op = "connect", !.login = envLogin, !.hasPw = envPw,
                                   !.force = force, !.alive = a.alive, !.ok = r.ok,
                                   !.calls = r.calls,
                                   !.connects = <<[force |-> force, ok |-> r.ok]>>])

\* disconnect() (lines 134-138)
OpDisconnect ==
  Returned([init |-> FALSE, conn |-> FALSE, acct |-> None],
           [NoOp EXCEPT !.op = "disconnect", !.ok = TRUE, !.calls = <<"shutdown">>])

OpIsConnected ==
  \E a \in {Healthy, InitFails} :
    LET r == IsConnectedFrom(AdapterState, a)
    IN Returned(r.st, [NoOp EXCEPT !.op = "is_connected", !.alive = a.alive, !.ok = r.ok, !.calls = r.calls])

OpEnsureConnected ==
  \E a \in EnsureAnswers :
    LET r == EnsureConnectedFrom(AdapterState, a)
    IN Returned(r.st, [NoOp EXCEPT !.op = "ensure_connected", !.alive = a.alive, !.ok = r.ok,
                                   !.calls = r.calls, !.connects = r.connects])

TerminalOps == {"get_symbol_info", "place_limit_order", "get_account_info",
                "get_pending_orders", "get_order_detail", "close_pending_order"}
SymbolAnswers == {"none", "visible", "hidden", "locked"}

TerminalOpReturned(name, r) ==
  Returned(r.st, [NoOp EXCEPT !.op = name, !.ok = (r.ret = "value"), !.calls = r.calls, !.ensured = r.ensured])

OpGetSymbolInfo ==
  \E a \in EnsureAnswers, sym \in SymbolAnswers :
    TerminalOpReturned("get_symbol_info", GetSymbolInfoFrom(AdapterState, a, sym))

OpPlaceLimitOrder ==
  \E a \in EnsureAnswers, order_type \in {"LIMIT_BUY", "MARKET"}, done \in BOOLEAN :
    TerminalOpReturned("place_limit_order", PlaceLimitOrderFrom(AdapterState, a, order_type, done))

OpGetAccountInfo ==
  \E a \in EnsureAnswers, answered \in BOOLEAN :
    TerminalOpReturned("get_account_info", GetAccountInfoFrom(AdapterState, a, answered))

OpGetPendingOrders ==
  \E a \in EnsureAnswers, answered \in BOOLEAN :
    TerminalOpReturned("get_pending_orders", GetPendingOrdersFrom(AdapterState, a, answered))

OpGetOrderDetail ==
  \E a \in EnsureAnswers, found \in BOOLEAN, a2 \in NestedAnswers :
    TerminalOpReturned("get_order_detail", GetOrderDetailFrom(AdapterState, a, found, a2, "visible"))

OpClosePendingOrder ==
  \E a \in EnsureAnswers, a1 \in NestedAnswers, found \in BOOLEAN, done \in BOOLEAN :
    TerminalOpReturned("close_pending_order", ClosePendingOrderFrom(AdapterState, a, a1, found, Healthy, "visible", done))

(***************************************************************************)
(* One MT5Adapter, its operations called one after the other in any order, *)
(* the terminal answering each call either way.                            *)
(***************************************************************************)
AdapterSpecInit ==
  /\ QueueInit /\ WorkerInit("off")
  /\ sent = [id \in QueueIds |-> NoCommand]
  /\ enqOk = {}
  /\ NotifInit
  /\ CalcInit
  /\ \E login \in LoginArgs, pw \in BOOLEAN : AdapterInit(login, pw)

adapterRest == <<queueVars, histVars, notifVars, calcVars,
                 wpc, running, pendingIds, idx, cur, result, dbConn, tradeStatus,
                 notifs, hist, signalled, stopTorn, crashedMid>>

AdapterNext ==
  \/ OpConnect /\ UNCHANGED adapterRest
  \/ OpDisconnect /\ UNCHANGED adapterRest
  \/ OpIsConnected /\ UNCHANGED adapterRest
  \/ OpEnsureConnected /\ UNCHANGED adapterRest
  \/ OpGetSymbolInfo /\ UNCHANGED adapterRest
  \/ OpPlaceLimitOrder /\ UNCHANGED adapterRest
  \/ OpGetAccountInfo /\ UNCHANGED adapterRest
  \/ OpGetPendingOrders /\ UNCHANGED adapterRest
  \/ OpGetOrderDetail /\ UNCHANGED adapterRest
  \/ OpClosePendingOrder /\ UNCHANGED adapterRest

AdapterSpec == AdapterSpecInit /\ [][AdapterNext]_vars

(***************************************************************************)
(* TradeValidator / RiskCalculator: what execute_trade_command branches on *)
(***************************************************************************)
\* a stop-side check that accepts a stop equal to the entry
validate_sl_positionLoose(order_type, entry_price, sl_price) ==
  IF order_type = "LIMIT_BUY" THEN sl_price <= entry_price
  ELSE IF order_type = "LIMIT_SELL" THEN sl_price >= entry_price
  ELSE FALSE

\* TradeValidator.validate_sl_position
validate_sl_position(order_type, entry_price, sl_price) ==
  IF order_type = "LIMIT_BUY" THEN sl_price < entry_price
  ELSE IF order_type = "LIMIT_SELL" THEN sl_price > entry_price
  ELSE FALSE

\* RiskCalculator.calculate_volume returns None (lines 64-73)
VolumeIsNone(risk_usd, entry_price, sl_price) ==
  risk_usd <= 0 \/ entry_price = sl_price

(***************************************************************************)
(* Python floats (IEEE 754 binary64) where calculate_volume depends on     *)
(* them: a float is its 53-bit significand m and its exponent e, with      *)
(* value m * 2^e.  The significand is kept in four limbs of 14 bits, most  *)
(* significant first.                                                      *)
(***************************************************************************)
Limb == 16384

BigZero == <<0, 0, 0, 0>>
BigOne == <<0, 0, 0, 1>>
\* 2^52 and 2^53
BigMin == <<1024, 0, 0, 0>>
BigTop == <<2048, 0, 0, 0>>

BigGeq(x, y) ==
  IF x[1] # y[1] THEN x[1] > y[1]
  ELSE IF x[2] # y[2] THEN x[2] > y[2]
  ELSE IF x[3] # y[3] THEN x[3] > y[3]
  ELSE x[4] >= y[4]

\* x - y for x >= y
BigSub(x, y) ==
  LET d4 == x[4] - y[4]
      b4 == IF d4 < 0 THEN 1 ELSE 0
      d3 == x[3] - y[3] - b4
      b3 == IF d3 < 0 THEN 1 ELSE 0
      d2 == x[2] - y[2] - b3
      b2 == IF d2 < 0 THEN 1 ELSE 0
      d1 == x[1] - y[1] - b2
  IN <<d1, d2 + b2 * Limb, d3 + b3 * Limb, d4 + b4 * Limb>>

\* 2 * x + bit
BigDouble(x, bit) ==
  LET s4 == 2 * x[4] + bit
      s3 == 2 * x[3] + s4 \div Limb
      s2 == 2 * x[2] + s3 \div Limb
      s1 == 2 * x[1] + s2 \div Limb
  IN <<s1, s2 % Limb, s3 % Limb, s4 % Limb>>

\* x \div 2
BigHalf(x) ==
  <<x[1] \div 2,
    x[2] \div 2 + (x[1] % 2) * (Limb \div 2),
    x[3] \div 2 + (x[2] % 2) * (Limb \div 2),
    x[4] \div 2 + (x[3] % 2) * (Limb \div 2)>>

BigOdd(x) == x[4] % 2 = 1

\* x + 1
BigInc(x) == BigSub(BigDouble(x, 1), x)

\* round to nearest, ties to even: q.m is the 53-bit quotient, q.half the
\* bit after it, q.sticky whether anything is left after that bit
FpRound(q, e) ==
  LET up == q.half /\ (q.sticky \/ BigOdd(q.m))
      m1 == IF up THEN BigInc(q.m) ELSE q.m
  IN IF m1 = BigTop THEN [m |-> BigMin, e |-> e + 1] ELSE [m |-> m1, e |-> e]

\* the first 53 bits of n / d, for integers with d <= n < 2 * d: long
\* division, one bit per step (q.r is the remainder, q.m the bits so far)
RECURSIVE RatioSteps(_, _)
RatioSteps(q, n) ==
  IF n = 0 THEN q
  ELSE IF 2 * q.r >= q.d
  THEN RatioSteps([d |-> q.d, r |-> 2 * q.r - q.d, m |-> BigDouble(q.m, 1)], n - 1)
  ELSE RatioSteps([d |-> q.d, r |-> 2 * q.r, m |-> BigDouble(q.m, 0)], n - 1)

FpBits(d, r) ==
  LET q == RatioSteps([d |-> d, r |-> r, m |-> BigOne], 52)
  IN [m |-> q.m, half |-> 2 * q.r >= d, sticky |-> (2 * q.r) % d > 0]

\* the largest t with d * 2^t <= n (n >= d), the smallest t with
\* n * 2^t >= d (n < d)
RECURSIVE ScaleDown(_, _)
ScaleDown(n, d) == IF 2 * d <= n THEN 1 + ScaleDown(n, 2 * d) ELSE 0
RECURSIVE ScaleUp(_, _)
ScaleUp(n, d) == IF n >= d THEN 0 ELSE 1 + ScaleUp(2 * n, d)

RECURSIVE Pow2(_)
Pow2(t) == IF t = 0 THEN 1 ELSE 2 * Pow2(t - 1)

\* the float a decimal literal or an exact quotient a / b evaluates to
\* (a, b positive integers)
FpFromRatio(a, b) ==
  IF a >= b
  THEN LET t == ScaleDown(a, b)
           d == b * Pow2(t)
       IN FpRound(FpBits(d, a - d), t - 52)
  ELSE LET t == ScaleUp(a, b)
           n == a * Pow2(t)
       IN FpRound(FpBits(b, n - b), (0 - t) - 52)

\* one step of the long division of two significands: the remainder left
\* by the next quotient bit (r < d)
DivRest(d, r) ==
  IF BigGeq(BigDouble(r, 0), d) THEN BigSub(BigDouble(r, 0), d) ELSE BigDouble(r, 0)
DivBit(d, r) == IF BigGeq(BigDouble(r, 0), d) THEN 1 ELSE 0

RECURSIVE DivSteps(_, _)
DivSteps(q, n) ==
  IF n = 0 THEN q
  ELSE IF DivBit(q.d, q.r) = 1
  THEN DivSteps([d |-> q.d, r |-> DivRest(q.d, q.r), m |-> BigDouble(q.m, 1)], n - 1)
  ELSE DivSteps([d |-> q.d, r |-> DivRest(q.d, q.r), m |-> BigDouble(q.m, 0)], n - 1)

FpDivBits(d, r) ==
  LET q == DivSteps([d |-> d, r |-> r, m |-> BigOne], 52)
  IN [m |-> q.m, half |-> DivBit(d, q.r) = 1, sticky |-> DivRest(d, q.r) # BigZero]

\* x / y in float arithmetic (one correctly rounded division)
FpDiv(x, y) ==
  IF BigGeq(x.m, y.m)
  THEN FpRound(FpDivBits(y.m, BigSub(x.m, y.m)), (x.e - y.e) - 52)
  ELSE FpRound(FpDivBits(y.m, BigSub(BigDouble(x.m, 0), y.m)), (x.e - y.e) - 53)

RECURSIVE BigShift(_, _)
BigShift(x, k) == IF k = 0 \/ x = BigZero THEN x ELSE BigShift(BigHalf(x), k - 1)

\* math.floor(x) for a positive float below 2^28
FpFloor(x) ==
  LET f == BigShift(x.m, 0 - x.e)
  IN f[3] * Limb + f[4]

(***************************************************************************)
(* RiskCalculator.calculate_volume.  Units of the model: risk_usd in       *)
(* dollars; prices in pips (0.0001); pip_value in dollars; tick_size in    *)
(* points (0.00001); volumes in hundredths of a lot.  The raw volume is    *)
(* the exact quotient num / den; round(value, 8) takes it to a whole       *)
(* number of 1e-8 lots, which Python holds as the nearest float.           *)
(***************************************************************************)
\* 0.01 as a tick size, in points (line 90: if tick_size >= 0.01)
GoldTick == 1000
\* 10^8: round(value, 8)
Round8Scale == 100000000

Abs(x) == IF x < 0 THEN 0 - x ELSE x

\* lines 90-101: raw_volume as a quotient
\*   gold-like:   risk_usd / (sl_distance_price * 100)
\*   forex-like:  risk_usd / ((sl_distance_price / 0.0001) * pip_value)
RawVolume(risk_usd, entry_price, sl_price, pip_value, tick_size) ==
  IF tick_size >= GoldTick
  THEN [num |-> risk_usd * 100, den |-> Abs(entry_price - sl_price)]
  ELSE [num |-> risk_usd, den |-> Abs(entry_price - sl_price) * pip_value]

\* the decimal digits of r / den after the point, n of them, as a number
\* (r < den), and the remainder they leave
RECURSIVE DecimalDigits(_, _, _)
DecimalDigits(q, den, n) ==
  IF n = 0 THEN q
  ELSE DecimalDigits([digits |-> q.digits * 10 + (q.r * 10) \div den, r |-> (q.r * 10) % den], den, n - 1)

\* round(value, 8) (line 126), in units of 1e-8: nearest, ties to even
Round8(raw) ==
  LET whole == raw.num \div raw.den
      frac == DecimalDigits([digits |-> 0, r |-> raw.num % raw.den], raw.den, 8)
      k == whole * Round8Scale + frac.digits
  IN IF 2 * frac.r > raw.den \/ (2 * frac.r = raw.den /\ k % 2 = 1) THEN k + 1 ELSE k

\* _round_to_step (lines 116-127): math.floor(round(value, 8) / step), the
\* number of steps; value and step are floats and so is their quotient
RoundToStep(raw, step) ==
  IF Round8(raw) = 0 THEN 0
  ELSE FpFloor(FpDiv(FpFromRatio(Round8(raw), Round8Scale), FpFromRatio(step, 100)))

NoVolume == [valid |-> FALSE, lots |-> 0]

\* calculate_volume (lines 36-114); NoVolume is None
calculate_volume(risk_usd, entry_price, sl_price, pip_value, tick_size, volume_step, min_volume, max_volume) ==
  IF risk_usd <= 0 THEN NoVolume
  ELSE IF Abs(entry_price - sl_price) = 0 THEN NoVolume
  ELSE LET raw == RawVolume(risk_usd, entry_price, sl_price, pip_value, tick_size)
           volume == RoundToStep(raw, volume_step) * volume_step
       IN IF raw.num * 100 > max_volume * raw.den THEN [valid |-> TRUE, lots |-> max_volume]
          ELSE IF volume < min_volume THEN [valid |-> TRUE, lots |-> min_volume]
          ELSE [valid |-> TRUE, lots |-> volume]

\* TradeValidator.validate_trade (lines 95-150): is_valid and error
validate_trade(order_type, entry_price, sl_price, tp_price) ==
  IF validate_sl_position(order_type, entry_price, sl_price)
  THEN [is_valid |-> TRUE, error |-> ""]
  ELSE [is_valid |-> FALSE,
        error |-> IF order_type = "LIMIT_BUY" THEN "For LIMIT BUY, stop loss must be below entry price"
                  ELSE IF order_type = "LIMIT_SELL" THEN "For LIMIT SELL, stop loss must be above entry price"
                  ELSE "Invalid order type"]

(***************************************************************************)
(* The two calculators called on their own, with arguments drawn from the  *)
(* instruments of the tests: gold (2650.00, tick 0.01) and a forex pair    *)
(* (1.1000, tick 0.00001 or 0.0001).                                       *)
(***************************************************************************)
OrderTypes == {"LIMIT_BUY", "LIMIT_SELL", "MARKET"}

\* risk_usd of the calls
CalcRisks == {0, 50, 100, 290, 300, 570, 100000}

\* instrument metadata: gold, and the forex pair
GoldInfos ==
  [trade_tick_value : {1000}, trade_tick_size : {1000}, volume_step : {1, 10},
   volume_min : {1, 10}, volume_max : {1000}]
ForexInfos ==
  [trade_tick_value : {10}, trade_tick_size : {1}, volume_step : {1, 10},
   volume_min : {1}, volume_max : {1000}]
  \cup
  [trade_tick_value : {100}, trade_tick_size : {10}, volume_step : {1, 10},
   volume_min : {1}, volume_max : {1000}]

\* entry and stop prices of the calls, in pips
GoldPrices == [entry : {26500000}, sl : {26400000, 26450000, 26500000, 26600000}]
ForexPrices == [entry : {11000}, sl : {10950, 10971, 11000, 11050}]

\* MT5Adapter.calculate_pip_value (mt5_adapter.py:214-230):
\* tick_value / tick_size
calculate_pip_value(symbol_info) == symbol_info.trade_tick_value \div symbol_info.trade_tick_size

\* validate_sl_position(order_type, entry_price, sl_price) is called
CallValidate ==
  \E order_type \in OrderTypes, px \in GoldPrices \cup ForexPrices :
    calc' = [NoCalc EXCEPT !.fn = "validate_sl_position", !.order_type = order_type,
                           !.entry = px.entry, !.sl = px.sl, !.done = TRUE,
                           !.ok = validate_sl_position(order_type, px.entry, px.sl)]

\* the arguments of a calculate_volume call are chosen
VolumeArgs ==
  /\ calc.fn # "calculate_volume" \/ calc.done
  /\ \E risk_usd \in CalcRisks :
       \/ \E px \in GoldPrices, info \in GoldInfos :
            calc' = [NoCalc EXCEPT !.fn = "calculate_volume", !.risk_usd = risk_usd,
                                   !.entry = px.entry, !.sl = px.sl, !.info = info,
                                   !.pip_value = calculate_pip_value(info)]
       \/ \E px \in ForexPrices, info \in ForexInfos :
            calc' = [NoCalc EXCEPT !.fn = "calculate_volume", !.risk_usd = risk_usd,
                                   !.entry = px.entry, !.sl = px.sl, !.info = info,
                                   !.pip_value = calculate_pip_value(info)]

\* calculate_volume returns
CallVolume ==
  /\ calc.fn = "calculate_volume" /\ ~calc.done
  /\ LET v == calculate_volume(calc.risk_usd, calc.entry, calc.sl, calc.pip_value,
                               calc.info.trade_tick_size, calc.info.volume_step,
                               calc.info.volume_min, calc.info.volume_max)
     IN calc' = [calc EXCEPT !.done = TRUE, !.ok = v.valid, !.lots = v.lots]

CalcSpecInit == QueueInit /\ WorkerInit("off") /\ AuxInit

calcRest == <<queueVars, workerVars, histVars, notifVars, adapterVars, exec, stamp>>

CalcNext ==
  \/ CallValidate /\ UNCHANGED calcRest
  \/ VolumeArgs /\ UNCHANGED calcRest
  \/ CallVolume /\ UNCHANGED calcRest

CalcSpec == CalcSpecInit /\ [][CalcNext]_vars

(***************************************************************************)
(* MT5Adapter.execute_trade_command call by call, for one command after    *)
(* the other, as process_command calls it (trade_engine_worker.py:136):    *)
(* get_symbol_info, validate_trade, calculate_volume, place_limit_order,   *)
(* and the notification process_command builds from the result.            *)
(***************************************************************************)
\* the commands: every order type, the stop below, on and above the entry,
\* no risk and some risk; volume is the preview volume of the chat layer
\* on gold (2650.00), and one buy on a forex pair (1.1000, stop 5 pips below)
ExecCommands ==
  [symbol : {"XAUUSD"}, order_type : OrderTypes, entry : {26500000},
   sl : {26400000, 26500000, 26600000}, risk_usd : {0, 290}, volume : {7}]
  \cup
  [symbol : {"EURUSD"}, order_type : {"LIMIT_BUY"}, entry : {11000},
   sl : {10995}, risk_usd : {2}, volume : {7}]

\* trade_tick_value is in units of 0.00001 of the account currency, as
\* trade_tick_size is in units of 0.00001 of the price
TickValueScale == 100000

\* what the terminal reports for the instrument when asked; for the forex
\* pair a tick of 0.00001 worth 1.00 per lot
ExecInfos(symbol) ==
  IF symbol = "EURUSD"
  THEN [trade_tick_value : {TickValueScale}, trade_tick_size : {1}, volume_step : {1},
        volume_min : {1}, volume_max : {1000}]
  ELSE {i \in GoldInfos : i.volume_min = 1}

\* mt5.order_send: TRADE_RETCODE_DONE, no answer (None), or a refusal with
\* the terminal's comment
RejectReasons == {"No money", "Market closed"}
OrderAnswers == {"done", "none"} \cup RejectReasons

\* a sizing that takes the preview volume of the command
OrderVolumePreview(command, symbol_info) == [valid |-> TRUE, lots |-> command.volume]

\* lines 346-357: pip_value and volume from the command and the metadata
OrderVolume(command, symbol_info) ==
  calculate_volume(command.risk_usd, command.entry, command.sl,
                   calculate_pip_value(symbol_info), symbol_info.trade_tick_size,
                   symbol_info.volume_step, symbol_info.volume_min, symbol_info.volume_max)

\* a check that lets every trade through
CheckedTradeAny(command) == [is_valid |-> TRUE, error |-> ""]

\* lines 334-339: validate_trade on the command
CheckedTrade(command) ==
  validate_trade(command.order_type, command.entry, command.sl, 0)

\* an error text that quotes the terminal's comment
OrderErrorQuoted(comment) == comment

\* line 382: the error of a failed place_limit_order
OrderError(comment) == "Order placement failed"

\* result.order of an order_send answered TRADE_RETCODE_DONE (line 299): the
\* ticket the terminal gives its n-th order
OrderTicket(n) == 100 + n

\* the adapter and the terminal are left in state st
AdapterLeft(st) ==
  /\ termInit' = st.init
  /\ connected' = st.conn
  /\ termAcct' = st.acct

\* process_command(queue_id, queue_command) is called (line 262 of run())
CmdBegin ==
  /\ exec.pc = "idle"
  /\ exec.n < MaxExecCmds
  /\ \E c \in ExecCommands :
       exec' = [NoExec EXCEPT !.pc = "symbol", !.n = exec.n + 1, !.command = c,
                              !.earlier = IF exec.symbol_info # NoInfo THEN exec.symbol_info
                                          ELSE exec.earlier]
  /\ UNCHANGED <<termInit, connected, termAcct>>

\* lines 326-331: symbol_info = self.get_symbol_info(symbol)
CmdSymbolInfo ==
  /\ exec.pc = "symbol"
  /\ \E a \in EnsureAnswers, sym \in SymbolAnswers, info \in ExecInfos(exec.command.symbol) :
       LET r == GetSymbolInfoFrom(AdapterState, a, sym)
       IN /\ AdapterLeft(r.st)
          /\ exec' = IF r.ret = "value"
                     THEN [exec EXCEPT !.pc = "validate", !.calls = r.calls,
                                       !.fetched = Len(r.calls), !.symbol_info = info]
                     ELSE [exec EXCEPT !.pc = "notify", !.calls = r.calls,
                                       !.fetched = Len(r.calls),
                                       !.result.error = "Symbol not found in MT5"]

\* lines 334-361: validate_trade, calculate_pip_value, calculate_volume
CmdValidate ==
  /\ exec.pc = "validate"
  /\ LET validation == CheckedTrade(exec.command)
         volume == OrderVolume(exec.command, exec.symbol_info)
     IN exec' = IF ~validation.is_valid
                THEN [exec EXCEPT !.pc = "notify", !.result.error = validation.error]
                ELSE IF ~volume.valid
                THEN [exec EXCEPT !.pc = "notify", !.result.error = "Failed to calculate volume"]
                ELSE [exec EXCEPT !.pc = "order", !.volume = volume.lots]
  /\ UNCHANGED <<termInit, connected, termAcct>>

\* lines 366-382: place_limit_order(..., volume=volume, ...); the request of
\* lines 271-284 goes to mt5.order_send; a refusal is logged (line 294)
CmdPlaceOrder ==
  /\ exec.pc = "order"
  /\ \E a \in EnsureAnswers, answer \in OrderAnswers :
       LET r == PlaceLimitOrderFrom(AdapterState, a, exec.command.order_type, answer = "done")
           sent_ == Count(r.calls, "order_send") = 1
       IN /\ AdapterLeft(r.st)
          /\ exec' = [exec EXCEPT
                !.pc = "notify",
                !.calls = @ \o r.calls,
                !.orders = IF sent_
                           THEN Append(@, [order_type |-> exec.command.order_type,
                                           price |-> exec.command.entry,
                                           sl |-> exec.command.sl,
                                           volume |-> exec.volume])
                           ELSE @,
                !.refused = IF sent_ /\ answer \in RejectReasons THEN answer ELSE "",
                !.accepted = IF sent_ /\ answer = "done" THEN @ + 1 ELSE @,
                !.result = IF r.ret = "value"
                           THEN [success |-> TRUE, error |-> "", volume |-> exec.volume,
                                 ticket |-> OrderTicket(exec.n)]               \* lines 376-380
                           ELSE [success |-> FALSE,
                                 error |-> OrderError(IF answer \in RejectReasons THEN answer ELSE ""),
                                 volume |-> 0, ticket |-> None]]

\* execute_trade_command returns; process_command builds the notification
\* from the result (lines 159-175, 189-204: details.error = result['error'])
CmdNotify ==
  /\ exec.pc = "notify"
  /\ exec' = [exec EXCEPT !.pc = "idle",
                          !.notified = <<[success |-> exec.result.success, error |-> exec.result.error]>>]
  /\ UNCHANGED <<termInit, connected, termAcct>>

ExecSpecInit ==
  /\ QueueInit /\ WorkerInit("off")
  /\ sent = [id \in QueueIds |-> NoCommand]
  /\ enqOk = {}
  /\ NotifInit
  /\ CalcInit
  /\ \E pw \in BOOLEAN : AdapterInit(IF pw THEN 2 ELSE None, pw)

execRest == <<queueVars, histVars, notifVars, calc, stamp,
              wpc, running, pendingIds, idx, cur, result, dbConn, tradeStatus,
              notifs, hist, signalled, stopTorn, crashedMid,
              envLogin, envPw, lastOp, prevOp>>

ExecNext ==
  \/ CmdBegin /\ UNCHANGED execRest
  \/ CmdSymbolInfo /\ UNCHANGED execRest
  \/ CmdValidate /\ UNCHANGED execRest
  \/ CmdPlaceOrder /\ UNCHANGED execRest
  \/ CmdNotify /\ UNCHANGED execRest

ExecSpec == ExecSpecInit /\ [][ExecNext]_vars

(***************************************************************************)
(* CommandQueue by the names of its files: queue_id is the UTC second of   *)
(* the enqueue and eight hex digits of a uuid4 (command_queue.py:62), and  *)
(* list_pending sorts the paths.  The instants are of one day, so that the *)
(* %Y%m%d_ prefix is the same in every name; two of the hex digits are     *)
(* kept.                                                                   *)
(***************************************************************************)
\* the seconds after midnight the clock goes through
Instants == <<9, 10, 60>>

\* uuid.uuid4().hex[:8], as hex digits
Suffixes == {<<0, 10>>, <<10, 0>>}

\* '%d' of each field, without the zero padding
StrfTimeUnpadded(sec) == Digits(sec \div 3600) \o Digits((sec % 3600) \div 60) \o Digits(sec % 60)

\* two decimal digits, zero padded, as character codes
TwoDigits(n) == <<48 + (n \div 10), 48 + (n % 10)>>

\* strftime('%H%M%S') of an instant
StrfTime(sec) == TwoDigits(sec \div 3600) \o TwoDigits((sec % 3600) \div 60) \o TwoDigits(sec % 60)

\* the character code of a hex digit ('0' = 48, 'a' = 97)
HexCode(d) == IF d < 10 THEN 48 + d ELSE 87 + d

\* queue_id = f"{strftime}_{hex}" (line 62), '_' = 95
QueueIdName(id) == StrfTime(id.second) \o <<95>> \o [i \in 1..Len(id.suffix) |-> HexCode(id.suffix[i])]

\* sorted(paths): ascending by name
RECURSIVE SortedIds(_)
SortedIds(S) ==
  IF S = {} THEN <<>>
  ELSE LET m == CHOOSE x \in S : \A y \in S \ {x} : StrLess(QueueIdName(x), QueueIdName(y))
       IN <<m>> \o SortedIds(S \ {m})

\* the clock reaches the next instant
StampTick ==
  /\ stamp.at < Len(Instants)
  /\ stamp' = [stamp EXCEPT !.at = @ + 1, !.done = FALSE]

\* enqueue (lines 45-92): a new id from the clock and a fresh uuid4, and
\* the file of that name
StampEnqueue ==
  /\ Len(stamp.order) < MaxStamped
  /\ \E sfx \in Suffixes :
       LET id == [second |-> Instants[stamp.at], suffix |-> sfx]
       IN /\ \A i \in 1..Len(stamp.order) : stamp.order[i] # id
          /\ stamp' = [stamp EXCEPT !.files = @ \cup {id}, !.order = Append(@, id), !.done = FALSE]

\* dequeue (lines 107-136): the file of the id is unlinked
StampDequeue ==
  \E id \in stamp.files :
    stamp' = [stamp EXCEPT !.files = @ \ {id}, !.done = FALSE]

\* list_pending (lines 138-150): [f.stem for f in sorted(glob("*.json"))]
StampListPending ==
  stamp' = [stamp EXCEPT !.listed = SortedIds(stamp.files), !.done = TRUE]

StampSpecInit == QueueInit /\ WorkerInit("off") /\ AuxInit

stampRest == <<queueVars, workerVars, histVars, notifVars, adapterVars, calc, exec>>

StampNext ==
  \/ StampTick /\ UNCHANGED stampRest
  \/ StampEnqueue /\ UNCHANGED stampRest
  \/ StampDequeue /\ UNCHANGED stampRest
  \/ StampListPending /\ UNCHANGED stampRest

StampSpec == StampSpecInit /\ [][StampNext]_vars

Failure(msg) == [success |-> FALSE, ticket |-> None, error |-> msg]
\* the ticket the terminal gives the order of queue entry q
Ticket(q) == 100 + q

(***************************************************************************)
(* DatabaseManager.update_trade_status and NotificationQueue.enqueue       *)
(***************************************************************************)
\* UPDATE trades SET status = ?, [mt5_ticket = ?] WHERE id = ?
UpdateTradeStatus(trade_id, status, mt5_ticket) ==
  tradeStatus' = [tradeStatus EXCEPT ![trade_id] =
                    [status |-> status,
                     ticket |-> IF mt5_ticket # None THEN mt5_ticket ELSE @.ticket]]

\* the statement can run: the handle is open and sqlite raises nothing
DbWorks(fault) == dbConn = "open" /\ ~fault

(***************************************************************************)
(* TradeEngineWorker.stop, as run by the signal handler and by run()'s     *)
(* finally clause.                                                         *)
(***************************************************************************)
Stop ==
  /\ running' = FALSE
  /\ IF connected THEN Disconnect ELSE UNCHANGED <<termInit, connected>>
  /\ dbConn' = IF dbConn # "none" THEN "closed" ELSE dbConn

\* _signal_handler: Python runs it in the main thread between two bytecodes
\* of whatever run() is executing
Signal ==
  /\ wpc \notin {"off", "returned"}
  /\ Stop
  /\ signalled' = TRUE
  /\ stopTorn' = (stopTorn \/ connected \/ dbConn = "open")
  /\ UNCHANGED <<wpc, pendingIds, idx, cur, result, tradeStatus, notifs, hist, crashedMid>>
  /\ UNCHANGED queueVars

(***************************************************************************)
(* TradeEngineWorker.run                                                   *)
(***************************************************************************)
InCommand ==
  wpc \in {"x_health_a", "x_reconnect_a", "x_symbol", "x_health_b", "x_reconnect_b",
           "x_send", "p_update", "p_notify", "p_except"}

\* line 232: self.db.connect()
RunDbConnect ==
  /\ wpc = "start"
  /\ dbConn' = "open"
  /\ wpc' = "connect_mt5"
  /\ UNCHANGED <<running, pendingIds, idx, cur, result, connected, termInit,
                 tradeStatus, notifs, hist, signalled, stopTorn, crashedMid>>
  /\ UNCHANGED queueVars

\* lines 236-238 with connect_mt5 lines 98-102: adapter.connect(); on failure
\* run() returns at once
RunConnectMt5 ==
  /\ wpc = "connect_mt5"
  /\ AdapterConnect(FALSE, "acct_health", "returned", result)
  /\ UNCHANGED <<running, pendingIds, idx, cur, dbConn,
                 tradeStatus, notifs, hist, signalled, stopTorn, crashedMid>>
  /\ UNCHANGED queueVars

\* connect_mt5 lines 104-105: get_account_info() -> ensure_connected()
RunAcctHealth ==
  /\ wpc = "acct_health"
  /\ IsConnected("set_running", "acct_reconnect")
  /\ UNCHANGED <<running, pendingIds, idx, cur, result, termInit, dbConn,
                 tradeStatus, notifs, hist, signalled, stopTorn, crashedMid>>
  /\ UNCHANGED queueVars

\* ensure_connected line 172; connect_mt5 returns True whatever this call returns
RunAcctReconnect ==
  /\ wpc = "acct_reconnect"
  /\ AdapterConnect(TRUE, "set_running", "set_running", result)
  /\ UNCHANGED <<running, pendingIds, idx, cur, dbConn,
                 tradeStatus, notifs, hist, signalled, stopTorn, crashedMid>>
  /\ UNCHANGED queueVars

\* line 240: self.running = True
RunSetRunning ==
  /\ wpc = "set_running"
  /\ running' = TRUE
  /\ wpc' = "while"
  /\ UNCHANGED <<pendingIds, idx, cur, result, connected, termInit, dbConn,
                 tradeStatus, notifs, hist, signalled, stopTorn, crashedMid>>
  /\ UNCHANGED queueVars

\* line 250: while self.running
RunWhile ==
  /\ wpc = "while"
  /\ wpc' = IF running THEN "list" ELSE "finally"
  /\ UNCHANGED <<running, pendingIds, idx, cur, result, connected, termInit, dbConn,
                 tradeStatus, notifs, hist, signalled, stopTorn, crashedMid>>
  /\ UNCHANGED queueVars

\* line 252: pending_ids = self.queue.list_pending()
RunListPending ==
  /\ wpc = "list"
  /\ pendingIds' = ListPending
  /\ idx' = 1
  /\ wpc' = "for"
  /\ UNCHANGED <<running, cur, result, connected, termInit, dbConn,
                 tradeStatus, notifs, hist, signalled, stopTorn, crashedMid>>
  /\ UNCHANGED queueVars

\* lines 257-262: next queue_id, break when stopped, else call dequeue
RunFor ==
  /\ wpc = "for"
  /\ IF idx > Len(pendingIds) \/ ~running
     THEN /\ wpc' = "sleep"
          /\ pendingIds' = <<>>      \* not read again before line 252 assigns it
          /\ idx' = 0
          /\ UNCHANGED deq
     ELSE /\ wpc' = "dequeuing"
          /\ deq' = [deq EXCEPT ![WorkerCaller] = [IdleDeq EXCEPT !.pc = "exists", !.id = pendingIds[idx]]]
          /\ UNCHANGED <<pendingIds, idx>>
  /\ UNCHANGED <<running, cur, result, connected, termInit, dbConn,
                 tradeStatus, notifs, hist, signalled, stopTorn, crashedMid>>
  /\ UNCHANGED <<dir, enq, nextId, lastEnq, deqLog, crashSurvived>>

\* lines 262-266: dequeue returned; None skips the id, an envelope enters
\* process_command (lines 125-126)
RunDequeued ==
  /\ wpc = "dequeuing"
  /\ deq[WorkerCaller].pc = "ret"
  /\ IF deq[WorkerCaller].found
     THEN /\ cur' = deq[WorkerCaller].data
          /\ result' = NoResult
          /\ deqLog' = [deqLog EXCEPT ![deq[WorkerCaller].id] = @ + 1]
          /\ hist' = [hist EXCEPT ![deq[WorkerCaller].id].trade_id = deq[WorkerCaller].data.command.trade_id,
                                  ![deq[WorkerCaller].id].telegram_id = deq[WorkerCaller].data.command.telegram_id]
          /\ wpc' = "x_health_a"
          /\ UNCHANGED idx
     ELSE /\ idx' = idx + 1
          /\ wpc' = "for"
          /\ UNCHANGED <<cur, result, deqLog, hist>>
  /\ deq' = [deq EXCEPT ![WorkerCaller] = IdleDeq]
  /\ UNCHANGED <<running, pendingIds, connected, termInit, dbConn,
                 tradeStatus, notifs, signalled, stopTorn, crashedMid>>
  /\ UNCHANGED <<dir, enq, nextId, lastEnq, crashSurvived>>

\* line 279: time.sleep(poll_interval)
RunSleep ==
  /\ wpc = "sleep"
  /\ wpc' = "while"
  /\ UNCHANGED <<running, pendingIds, idx, cur, result, connected, termInit, dbConn,
                 tradeStatus, notifs, hist, signalled, stopTorn, crashedMid>>
  /\ UNCHANGED queueVars

\* lines 284-285: finally: self.stop(); run() returns
RunFinally ==
  /\ wpc = "finally"
  /\ Stop
  /\ wpc' = "returned"
  /\ UNCHANGED <<pendingIds, idx, cur, result, tradeStatus, notifs, hist, signalled, stopTorn, crashedMid>>
  /\ UNCHANGED queueVars

(***************************************************************************)
(* MT5Adapter.execute_trade_command, called by process_command line 136    *)
(***************************************************************************)
\* get_symbol_info line 184: ensure_connected() -> is_connected()
ExecHealthA ==
  /\ wpc = "x_health_a"
  /\ IsConnected("x_symbol", "x_reconnect_a")
  /\ UNCHANGED <<running, pendingIds, idx, cur, result, termInit, dbConn,
                 tradeStatus, notifs, hist, signalled, stopTorn, crashedMid>>
  /\ UNCHANGED queueVars

\* ensure_connected line 172: connect(force_reconnect=True); on failure
\* get_symbol_info returns None (lines 184-186, 329-331)
ExecReconnectA ==
  /\ wpc = "x_reconnect_a"
  /\ AdapterConnect(TRUE, "x_symbol", "p_update", Failure("Symbol not found in MT5"))
  /\ hist' = [hist EXCEPT ![cur.queue_id].lost = @ \/ wpc' = "p_update"]
  /\ UNCHANGED <<running, pendingIds, idx, cur, dbConn,
                 tradeStatus, notifs, signalled, stopTorn, crashedMid>>
  /\ UNCHANGED queueVars

\* lines 188-198: symbol_info / symbol_select; lines 334-343: validate_trade;
\* lines 346-361: calculate_volume
ExecSymbol ==
  /\ wpc = "x_symbol"
  /\ \E found \in BOOLEAN :
       LET c == cur.command IN
       IF ~(termInit /\ found)
       THEN result' = Failure("Symbol not found in MT5") /\ wpc' = "p_update"
       ELSE IF ~validate_sl_position(c.order_type, c.entry, c.sl)
       THEN result' = Failure("stop loss on the wrong side of entry") /\ wpc' = "p_update"
       ELSE IF VolumeIsNone(c.risk_usd, c.entry, c.sl)
       THEN result' = Failure("Failed to calculate volume") /\ wpc' = "p_update"
       ELSE result' = result /\ wpc' = "x_health_b"
  /\ UNCHANGED <<running, pendingIds, idx, cur, connected, termInit, dbConn,
                 tradeStatus, notifs, hist, signalled, stopTorn, crashedMid>>
  /\ UNCHANGED queueVars

\* place_limit_order line 257: ensure_connected() -> is_connected()
ExecHealthB ==
  /\ wpc = "x_health_b"
  /\ IsConnected("x_send", "x_reconnect_b")
  /\ UNCHANGED <<running, pendingIds, idx, cur, result, termInit, dbConn,
                 tradeStatus, notifs, hist, signalled, stopTorn, crashedMid>>
  /\ UNCHANGED queueVars

\* ensure_connected line 172; on failure place_limit_order returns None
\* (lines 257-259, 381-382)
ExecReconnectB ==
  /\ wpc = "x_reconnect_b"
  /\ AdapterConnect(TRUE, "x_send", "p_update", Failure("Order placement failed"))
  /\ hist' = [hist EXCEPT ![cur.queue_id].lost = @ \/ wpc' = "p_update"]
  /\ UNCHANGED <<running, pendingIds, idx, cur, dbConn,
                 tradeStatus, notifs, signalled, stopTorn, crashedMid>>
  /\ UNCHANGED queueVars

\* lines 287-305, 376-382: mt5.order_send(request); the terminal accepts
\* (TRADE_RETCODE_DONE), rejects or answers nothing
ExecOrderSend ==
  /\ wpc = "x_send"
  /\ \E answer \in {"done", "rejected", "none"} :
       LET q == cur.queue_id
           accepted == termInit /\ answer = "done"
       IN /\ hist' = [hist EXCEPT ![q].sends = @ + 1, ![q].accepted = @ \/ accepted]
          /\ result' = IF accepted
                       THEN [success |-> TRUE, ticket |-> Ticket(q), error |-> ""]
                       ELSE Failure("Order placement failed")
  /\ wpc' = "p_update"
  /\ UNCHANGED <<running, pendingIds, idx, cur, connected, termInit, dbConn,
                 tradeStatus, notifs, signalled, stopTorn, crashedMid>>
  /\ UNCHANGED queueVars

(***************************************************************************)
(* TradeEngineWorker.process_command after execute_trade_command           *)
(***************************************************************************)
\* process_command returns to the for loop of run() (lines 266-276); its
\* locals are gone
ProcReturn ==
  /\ cur' = Envelope(None, NoCommand)
  /\ result' = NoResult
  /\ idx' = idx + 1
  /\ wpc' = "for"

\* a process_command that goes on to the notification without the update
ProcUpdateNoWrite ==
  /\ wpc = "p_update"
  /\ wpc' = "p_notify"
  /\ UNCHANGED <<running, pendingIds, idx, cur, result, connected, termInit, dbConn,
                 tradeStatus, hist, notifs, signalled, stopTorn, crashedMid>>
  /\ UNCHANGED queueVars

\* lines 142-156 and 176-186: if trade_id: update_trade_status(filled | failed);
\* an exception leaves the try block for line 206
ProcUpdate ==
  /\ wpc = "p_update"
  /\ LET tid == cur.command.trade_id
         q == cur.queue_id
     IN IF tid = None
        THEN wpc' = "p_notify" /\ UNCHANGED <<tradeStatus, hist>>
        ELSE \E fault \in BOOLEAN :
               IF DbWorks(fault)
               THEN /\ IF result.success
                       THEN UpdateTradeStatus(tid, "filled", result.ticket)
                       ELSE UpdateTradeStatus(tid, "failed", None)
                    /\ hist' = [hist EXCEPT ![q].persists = @ + 1]
                    /\ wpc' = "p_notify"
               ELSE wpc' = "p_except" /\ UNCHANGED <<tradeStatus, hist>>
  /\ UNCHANGED <<running, pendingIds, idx, cur, result, connected, termInit, dbConn,
                 notifs, signalled, stopTorn, crashedMid>>
  /\ UNCHANGED queueVars

\* lines 159-175 and 189-204: if telegram_id and trade_id:
\* notification_queue.enqueue(...), which may raise; return result['success']
ProcNotify ==
  /\ wpc = "p_notify"
  /\ LET c == cur.command
         q == cur.queue_id
     IN IF c.telegram_id # None /\ c.trade_id # None
        THEN \E ok \in BOOLEAN :
               IF ok
               THEN /\ notifs' = notifs \cup {[telegram_id |-> c.telegram_id, trade_id |-> c.trade_id, success |-> result.success]}
                    /\ hist' = [hist EXCEPT ![q].notifs = @ + 1, ![q].returned = TRUE]
                    /\ ProcReturn
               ELSE wpc' = "p_except" /\ UNCHANGED <<notifs, hist, idx, cur, result>>
        ELSE /\ hist' = [hist EXCEPT ![q].returned = TRUE]
             /\ ProcReturn
             /\ UNCHANGED notifs
  /\ UNCHANGED <<running, pendingIds, connected, termInit, dbConn,
                 tradeStatus, signalled, stopTorn, crashedMid>>
  /\ UNCHANGED queueVars

\* lines 206-219: except Exception: if trade_id: try update_trade_status(failed)
\* except: log; return False
ProcExcept ==
  /\ wpc = "p_except"
  /\ LET tid == cur.command.trade_id
         q == cur.queue_id
     IN \E fault \in BOOLEAN :
          IF tid # None /\ DbWorks(fault)
          THEN /\ UpdateTradeStatus(tid, "failed", None)
               /\ hist' = [hist EXCEPT ![q].persists = @ + 1, ![q].returned = TRUE]
          ELSE /\ hist' = [hist EXCEPT ![q].returned = TRUE]
               /\ UNCHANGED tradeStatus
  /\ ProcReturn
  /\ UNCHANGED <<running, pendingIds, connected, termInit, dbConn,
                 notifs, signalled, stopTorn, crashedMid>>
  /\ UNCHANGED queueVars

(***************************************************************************)
(* The worker process is killed and started again (run_worker.py): a new   *)
(* TradeEngineWorker on the same queue directory, database and terminal.   *)
(***************************************************************************)
WorkerCrash ==
  /\ wpc \notin {"off", "start", "returned"}
  /\ wpc' = "start"
  /\ running' = FALSE
  /\ pendingIds' = <<>>
  /\ idx' = 0
  /\ cur' = Envelope(None, NoCommand)
  /\ result' = NoResult
  /\ connected' = FALSE
  /\ termInit' = FALSE
  /\ dbConn' = "none"
  /\ signalled' = FALSE
  /\ stopTorn' = FALSE
  /\ crashedMid' = (crashedMid \/ (InCommand /\ hist[cur.queue_id].sends > 0))
  /\ deq' = [deq EXCEPT ![WorkerCaller] = IdleDeq]
  /\ EnsureQueueDirectory
  /\ UNCHANGED <<tradeStatus, notifs, hist>>
  /\ UNCHANGED <<dir, enq, nextId, lastEnq, deqLog, crashSurvived>>

(***************************************************************************)
(* The pipeline: the producer enqueues, one worker polls; stop signals and *)
(* worker crashes at any step.                                             *)
(***************************************************************************)
WorkerSpecInit == QueueInit /\ WorkerInit("start") /\ AuxInit

WorkerNext ==
  \/ \E t \in Templates : nextId < MaxWorkerCmds /\ EnqueueStart(t) /\ UNCHANGED <<workerVars, auxVars>>
  \/ EnqueueOpen /\ UNCHANGED <<workerVars, auxVars>>
  \/ EnqueueDump /\ UNCHANGED <<workerVars, auxVars>>
  \/ EnqueueRename /\ UNCHANGED <<workerVars, auxVars>>
  \/ EnqueueReturn /\ UNCHANGED <<workerVars, auxVars>>
  \/ EnqueueExcept /\ UNCHANGED <<workerVars, auxVars>>
  \/ DeqExists(WorkerCaller) /\ UNCHANGED <<workerVars, auxVars>>
  \/ DeqRead(WorkerCaller) /\ UNCHANGED <<workerVars, auxVars>>
  \/ DeqUnlink(WorkerCaller) /\ UNCHANGED <<workerVars, auxVars>>
  \/ RunDbConnect /\ UNCHANGED auxVars
  \/ RunConnectMt5 /\ UNCHANGED auxVars
  \/ RunAcctHealth /\ UNCHANGED auxVars
  \/ RunAcctReconnect /\ UNCHANGED auxVars
  \/ RunSetRunning /\ UNCHANGED auxVars
  \/ RunWhile /\ UNCHANGED auxVars
  \/ RunListPending /\ UNCHANGED auxVars
  \/ RunFor /\ UNCHANGED auxVars
  \/ RunDequeued /\ UNCHANGED auxVars
  \/ RunSleep /\ UNCHANGED auxVars
  \/ RunFinally /\ UNCHANGED auxVars
  \/ ExecHealthA /\ UNCHANGED auxVars
  \/ ExecReconnectA /\ UNCHANGED auxVars
  \/ ExecSymbol /\ UNCHANGED auxVars
  \/ ExecHealthB /\ UNCHANGED auxVars
  \/ ExecReconnectB /\ UNCHANGED auxVars
  \/ ExecOrderSend /\ UNCHANGED auxVars
  \/ ProcUpdate /\ UNCHANGED auxVars
  \/ ProcNotify /\ UNCHANGED auxVars
  \/ ProcExcept /\ UNCHANGED auxVars
  \/ Signal /\ UNCHANGED auxVars
  \/ WorkerCrash /\ UNCHANGED auxVars

WorkerSpec == WorkerSpecInit /\ [][WorkerNext]_vars

(***************************************************************************)
(* Properties                                                              *)
(***************************************************************************)
Pending(id) == id \in PendingStems

\* C1: at most one of the dequeue calls made for a queue id, however their
\* exists / read / unlink steps interleave, returns its envelope.
C1_AtMostOnceClaim == \A id \in QueueIds : deqLog[id] <= 1

\* two calls overlapped on one id: one has returned the envelope, the other
\* read the file too and is returning None
C1_Witness ==
  \E c \in Callers :
    /\ deq[c].pc = "ret"
    /\ ~deq[c].found
    /\ deq[c].data.queue_id = deq[c].id
    /\ deqLog[deq[c].id] = 1

\* C2: for every queue entry the worker calls order_send at most once, over
\* every run of the worker including a crash at any step and a restart.
C2_NoDuplicateSubmission == \A q \in QueueIds : hist[q].sends <= 1

\* the worker was killed inside a command after its order_send, was started
\* again and has polled the queue again
C2_Witness ==
  /\ crashedMid
  /\ wpc = "sleep"
  /\ \E q \in QueueIds : hist[q].sends = 1

\* C3: once process_command has returned for a command that carries a
\* trade_id, update_trade_status has succeeded exactly once for it.
C3_PersistedExactlyOnce ==
  \A q \in QueueIds :
    (hist[q].returned /\ hist[q].trade_id # None) => hist[q].persists = 1

\* C4: once process_command has returned for a dequeued command exactly one
\* notification has been enqueued for it, and none is enqueued for an id
\* whose dequeue returned nothing.
C4_ExactlyOneNotification ==
  \A q \in QueueIds :
    /\ hist[q].returned => hist[q].notifs = 1
    /\ deqLog[q] = 0 => hist[q].notifs = 0

\* C5: once process_command has returned, the ledger status of the command's
\* trade is 'filled' with the terminal's ticket if the terminal accepted the
\* order, and 'failed' otherwise.
C5_StatusMatchesTerminal ==
  \A q \in QueueIds :
    (hist[q].returned /\ hist[q].trade_id # None) =>
        tradeStatus[hist[q].trade_id] =
          IF hist[q].accepted
          THEN [status |-> "filled", ticket |-> Ticket(q)]
          ELSE [status |-> "failed", ticket |-> None]

\* C6: while the worker is inside a command (between dequeue and the return
\* of process_command) no stop signal has torn the terminal connection down or
\* closed the database handle.
C6_NoTeardownMidCommand == InCommand => ~stopTorn

\* C7: once run() has returned after a stop signal, the adapter is
\* disconnected, no terminal session is live and the database handle is closed.
C7_ShutdownTearsDown ==
  (wpc = "returned" /\ signalled) =>
      (~connected /\ ~termInit /\ dbConn = "closed")

\* C8: every id list_pending returns names a file holding the complete
\* envelope of that id, the count is the number of those files, and every
\* envelope a dequeue call hands back is the complete envelope of the id asked
\* for; a temporary file is never listed.
C8_PartialWritesNeverVisible ==
  /\ \A id \in QueueIds :
       Pending(id) =>
         /\ dir[JsonName(id)].bytes = "complete"
         /\ JsonLoad(dir[JsonName(id)].data).queue_id = id
  /\ GetPendingCount = Cardinality({id \in QueueIds : dir[JsonName(id)].bytes = "complete"})
  /\ \A c \in Callers : deq[c].found => deq[c].data.queue_id = deq[c].id

\* a crash left a partly written temporary file behind while another command
\* is pending
C8_Witness ==
  /\ enq.pc = "idle"
  /\ \E id \in QueueIds : dir[TmpName(id)] = PartialFile
  /\ ListPending # <<>>

\* C9: a pending command stays pending, its envelope unchanged, across every
\* step of every process, crashes and restarts included, except the unlink of
\* a dequeue call for its id and clear_all.  (A step that leaves the whole
\* directory as it was keeps every entry; the other steps are looked at entry
\* by entry.)
C9_CrashSafety ==
  [][dir' = dir \/ \A id \in QueueIds :
       Pending(id) =>
         \/ /\ id \in PendingStems'
            /\ dir'[JsonName(id)] = dir[JsonName(id)]
         \/ ClearAll
         \/ \E c \in Callers : deq[c].id = id /\ DeqUnlink(c)]_vars

\* the only command ever enqueued was pending when a process crashed, and
\* it is still pending after the restart
C9_Witness ==
  /\ crashSurvived
  /\ nextId = 1
  /\ lastEnq = [id |-> 1, outcome |-> "returned", fault |-> FALSE, cleaned |-> FALSE]
  /\ ListPending = <<1>>

\* C10: an enqueue call hit by an I/O fault (open, write or rename) raises
\* and never returns a queue id; after it raised neither its temporary file
\* nor a queue entry of its id exists, and raising leaves list_pending as it was.
C10_FailedEnqueueRaises ==
  /\ [](/\ lastEnq.fault => lastEnq.outcome = "raised"
        /\ enq.pc = "return" => ~enq.fault
        /\ lastEnq.outcome = "raised" =>
             (~Exists(TmpName(lastEnq.id)) /\ ~Exists(JsonName(lastEnq.id))))
  /\ [][(enq.pc = "except" /\ enq'.pc = "idle") => ListPending' = ListPending]_vars

\* a write failed after the temporary file was created: the call raised, the
\* file was removed, and the command queued before is still pending
C10_Witness ==
  /\ lastEnq.outcome = "raised"
  /\ lastEnq.cleaned
  /\ ListPending # <<>>

\* C11: once a dequeue call has returned the envelope of an id, the id is not
\* pending and no dequeue call for it finds anything; and every step of a
\* dequeue call other than an unlink that succeeds (the step that makes the
\* call return an envelope) leaves the set of pending ids as it was.
C11_DequeueDestructive ==
  /\ [](\A id \in QueueIds :
         deqLog[id] >= 1 =>
           /\ ~Pending(id)
           /\ \A c \in Callers : deq[c].id = id => ~deq[c].found)
  /\ [][\A c \in Callers :
         (deq[c].pc # "idle" /\ deq'[c] # deq[c] /\ ~deq'[c].found)
            => PendingStems' = PendingStems]_vars

\* a dequeue call for an id whose envelope was already handed out found no
\* file and is returning None
C11_Witness ==
  \E c \in Callers :
    /\ deq[c].pc = "ret"
    /\ ~deq[c].found
    /\ deq[c].data = Envelope(None, NoCommand)
    /\ deq[c].id # None
    /\ deqLog[deq[c].id] = 1

\* C12: the envelope a dequeue call returns for an id carries that id, the
\* status 'pending' and the command handed to the enqueue call that drew the
\* id; and while no dequeue has unlinked it, the entry of an id stays pending
\* with that content, whatever other commands are enqueued or dequeued.
C12_RoundTrip ==
  /\ \A c \in Callers :
       (deq[c].pc = "ret" /\ deq[c].found) =>
          deq[c].data = Envelope(deq[c].id, sent[deq[c].id])
  /\ \A id \in QueueIds :
       Pending(id) => JsonLoad(dir[JsonName(id)].data) = Envelope(id, sent[id])
  /\ (lastEnq.outcome = "returned" /\ deqLog[lastEnq.id] = 0
         /\ \A c \in Callers : ~(deq[c].id = lastEnq.id /\ deq[c].found))
       => Pending(lastEnq.id)

\* the first command is handed back after a second command was enqueued and
\* dequeued in between
C12_Witness ==
  \E c \in Callers :
    /\ deq[c].pc = "ret"
    /\ deq[c].found
    /\ deq[c].id = 1
    /\ deqLog[2] = 1
    /\ sent[2] # sent[1]

\* C13: a notification whose enqueue returned is pending until a send of it
\* to the user has succeeded (it is never gone from the store undelivered),
\* and the delivery job calls mark_sent for a notification only after its
\* send succeeded.
C13_NotificationNeverLost ==
  /\ \A j \in nqueued : NotifPending(j) \/ delivered[j] >= 1
  /\ bpc = "mark" => delivered[bsnap[bidx].serial] >= 1

\* C14: a connect() without force_reconnect that follows a successful
\* connect() with the same credentials, the terminal session still answering,
\* returns success and calls nothing but the account query: no shutdown, no
\* initialize, no login.
C14_IdempotentConnect ==
  (/\ lastOp.op = "connect" /\ ~lastOp.force
   /\ prevOp.op = "connect" /\ prevOp.ok /\ ~prevOp.force
   /\ lastOp.before.init /\ lastOp.alive)
    => (lastOp.ok /\ lastOp.calls = <<"account_info">>)

\* the identity mt5.account_info() reported to the connect() that returned last
InfoSeen == IF lastOp.before.init /\ lastOp.alive THEN lastOp.before.acct ELSE None
OtherIdentity == InfoSeen # None /\ lastOp.login # None /\ lastOp.login # InfoSeen

\* C15: a connect() called with force_reconnect, or finding the session on
\* another account than the login supplied, calls shutdown right before its
\* first initialize attempt; a connect() without force_reconnect that finds a
\* session on the supplied login (or with no login supplied) calls no shutdown.
C15_ShutdownBeforeInitialize ==
  lastOp.op = "connect" =>
    /\ (lastOp.force \/ OtherIdentity) =>
          \E i \in 1..Len(lastOp.calls) - 1 :
            /\ lastOp.calls[i] = "shutdown"
            /\ IsInitialize(lastOp.calls[i + 1])
            /\ \A k \in 1..i : ~IsInitialize(lastOp.calls[k])
    /\ (~lastOp.force /\ InfoSeen # None /\ ~OtherIdentity) =>
          Count(lastOp.calls, "shutdown") = 0

\* a connect() without force_reconnect that found the session on another
\* account, shut down, needed two initialize attempts and succeeded
C15_Witness ==
  /\ lastOp.op = "connect"
  /\ lastOp.ok
  /\ ~lastOp.force
  /\ OtherIdentity
  /\ lastOp.calls = <<"account_info", "shutdown", "initialize_failed", "initialize">>

\* a connect() without force_reconnect that found the session on the supplied
\* login and made no other call
C15_WitnessHealthy ==
  /\ lastOp.op = "connect"
  /\ ~lastOp.force
  /\ lastOp.login # None
  /\ InfoSeen = lastOp.login
  /\ lastOp.calls = <<"account_info">>

\* C16: one connect() makes at most max_retries (3) initialize attempts and
\* at most one login attempt; when every initialize attempt failed it returns
\* failure and attempts no login.
C16_BoundedRetries ==
  lastOp.op = "connect" =>
    /\ Count(lastOp.calls, "initialize") + Count(lastOp.calls, "initialize_failed") <= max_retries
    /\ Count(lastOp.calls, "login") <= 1
    /\ (Count(lastOp.calls, "initialize_failed") >= 1 /\ Count(lastOp.calls, "initialize") = 0)
          => (~lastOp.ok /\ Count(lastOp.calls, "login") = 0)

\* a connect() with credentials whose three initialize attempts all failed
C16_Witness ==
  /\ lastOp.op = "connect"
  /\ lastOp.login # None /\ lastOp.hasPw
  /\ Count(lastOp.calls, "initialize_failed") = max_retries
  /\ ~lastOp.ok

\* a connect() that succeeded on its third initialize attempt and logged in
C16_WitnessThird ==
  /\ lastOp.op = "connect"
  /\ Count(lastOp.calls, "initialize_failed") = max_retries - 1
  /\ Count(lastOp.calls, "login") = 1
  /\ lastOp.ok

\* C17: a connect() whose initialize succeeded and whose login (credentials
\* supplied) failed ends with shutdown, leaves no session and returns
\* failure; and a connect() turns the connected flag on only by returning
\* success with a live session that, when credentials were supplied, is on
\* the supplied login.
C17_LoginFailureTearsDown ==
  lastOp.op = "connect" =>
    /\ (Count(lastOp.calls, "login") = 1 /\ ~lastOp.ok) =>
          /\ lastOp.calls[Len(lastOp.calls)] = "shutdown"
          /\ ~termInit
    /\ (connected /\ ~lastOp.before.conn) =>
          /\ lastOp.ok
          /\ termInit
          /\ (lastOp.login # None /\ lastOp.hasPw) => termAcct = lastOp.login
          /\ Count(lastOp.calls, "initialize") = 1 \/ InfoSeen # None

\* initialize succeeded, login failed
C17_Witness ==
  /\ lastOp.op = "connect"
  /\ Count(lastOp.calls, "initialize") = 1
  /\ Count(lastOp.calls, "login") = 1
  /\ ~lastOp.ok

\* C18: is_connected() never turns the connected flag on; when the account
\* query fails it turns the flag off and returns false; when the query
\* succeeds it returns true and leaves the flag as it was.
C18_HealthCheckOnlyDowngrades ==
  lastOp.op = "is_connected" =>
    /\ ~lastOp.before.conn => ~connected
    /\ IF lastOp.before.init /\ lastOp.alive
       THEN lastOp.ok /\ connected = lastOp.before.conn
       ELSE ~lastOp.ok /\ ~connected
    /\ lastOp.calls = <<"account_info">>
    /\ termInit = lastOp.before.init

\* the query succeeded while the flag was off: true is returned, the flag stays off
C18_Witness ==
  /\ lastOp.op = "is_connected"
  /\ lastOp.ok
  /\ ~lastOp.before.conn
  /\ ~connected

\* a failed query turned the flag off
C18_WitnessDowngrade ==
  /\ lastOp.op = "is_connected"
  /\ ~lastOp.ok
  /\ lastOp.before.conn
  /\ ~connected

\* C19: ensure_connected() returns true and calls nothing but the account
\* query when the health check passes; when it fails, it makes exactly one
\* connect call, with force_reconnect (shutdown first), and returns its result.
C19_EnsureConnected ==
  lastOp.op = "ensure_connected" =>
    IF lastOp.before.init /\ lastOp.alive
    THEN /\ lastOp.ok
         /\ lastOp.calls = <<"account_info">>
         /\ lastOp.connects = <<>>
    ELSE /\ Len(lastOp.connects) = 1
         /\ lastOp.connects[1].force
         /\ lastOp.ok = lastOp.connects[1].ok
         /\ lastOp.calls[1] = "account_info"
         /\ lastOp.calls[2] = "shutdown"
         /\ Count(lastOp.calls, "shutdown") = IF lastOp.ok \/ Count(lastOp.calls, "login") = 0 THEN 1 ELSE 2

\* the health check failed and the forced reconnect succeeded
C19_Witness ==
  /\ lastOp.op = "ensure_connected"
  /\ lastOp.ok
  /\ lastOp.connects = <<[force |-> TRUE, ok |-> TRUE]>>

\* the health check failed and so did the reconnect
C19_WitnessFailed ==
  /\ lastOp.op = "ensure_connected"
  /\ ~lastOp.ok
  /\ lastOp.connects = <<[force |-> TRUE, ok |-> FALSE]>>

TerminalQueries == {"symbol_info", "symbol_select", "orders_get", "order_send"}

\* C20: every terminal-facing operation starts with ensure_connected (its
\* account query is the first terminal call); when that ensure_connected
\* returns false the operation returns its failure value and has sent no
\* metadata query, order query or order request, whatever the connected flag
\* was before.
C20_EnsureConnectedFirst ==
  lastOp.op \in TerminalOps =>
    /\ lastOp.ensured # <<>>
    /\ lastOp.calls[1] = "account_info"
    /\ ~lastOp.ensured[1] =>
          /\ ~lastOp.ok
          /\ \A i \in 1..Len(lastOp.calls) : lastOp.calls[i] \notin TerminalQueries
          /\ Count(lastOp.calls, "account_info") = 1

\* close_pending_order was called with the flag on and the terminal gone: it
\* failed without a request
C20_Witness ==
  /\ lastOp.op = "close_pending_order"
  /\ lastOp.before.conn
  /\ lastOp.ensured = <<FALSE>>
  /\ ~lastOp.ok
\* C29: validate_sl_position returns true for LIMIT_BUY exactly when the
\* stop is below the entry, for LIMIT_SELL exactly when it is above, and
\* false whenever stop and entry are equal.
C29_StopSide ==
  (calc.fn = "validate_sl_position" /\ calc.done) =>
    /\ calc.order_type = "LIMIT_BUY" => (calc.ok <=> calc.sl < calc.entry)
    /\ calc.order_type = "LIMIT_SELL" => (calc.ok <=> calc.sl > calc.entry)
    /\ calc.sl = calc.entry => ~calc.ok

\* a LIMIT_SELL with the stop equal to the entry was refused
C29_Witness ==
  /\ calc.fn = "validate_sl_position" /\ calc.done
  /\ calc.order_type = "LIMIT_SELL"
  /\ calc.sl = calc.entry
  /\ ~calc.ok

\* the sizing of the claim, in exact arithmetic: the raw volume capped
\* first, rounded down to a multiple of volume_step second, raised to
\* min_volume last
ReferenceVolume(risk_usd, entry_price, sl_price, pip_value, tick_size, volume_step, min_volume, max_volume) ==
  IF risk_usd <= 0 \/ entry_price = sl_price THEN NoVolume
  ELSE LET raw == RawVolume(risk_usd, entry_price, sl_price, pip_value, tick_size)
           floored == ((raw.num * 100) \div (raw.den * volume_step)) * volume_step
       IN IF raw.num * 100 > max_volume * raw.den THEN [valid |-> TRUE, lots |-> max_volume]
          ELSE IF floored < min_volume THEN [valid |-> TRUE, lots |-> min_volume]
          ELSE [valid |-> TRUE, lots |-> floored]

\* C30: calculate_volume returns the reference sizing for every input.
C30_ReferenceSizing ==
  (calc.fn = "calculate_volume" /\ calc.done) =>
    [valid |-> calc.ok, lots |-> calc.lots] =
      ReferenceVolume(calc.risk_usd, calc.entry, calc.sl, calc.pip_value,
                      calc.info.trade_tick_size, calc.info.volume_step,
                      calc.info.volume_min, calc.info.volume_max)

\* a command the validation of the claim refuses: an order type other than
\* the two limit orders, or the stop on the wrong side of the entry or on it
InvalidCommand(c) ==
  \/ c.order_type \notin {"LIMIT_BUY", "LIMIT_SELL"}
  \/ c.order_type = "LIMIT_BUY" /\ c.sl >= c.entry
  \/ c.order_type = "LIMIT_SELL" /\ c.sl <= c.entry

C22_AuthoritativeSizing ==
  (exec.pc = "notify" /\ exec.orders # <<>>) =>
    /\ Len(exec.orders) = 1
    /\ exec.symbol_info \in ExecInfos(exec.command.symbol)
    /\ [valid |-> TRUE, lots |-> exec.orders[1].volume] =
         calculate_volume(exec.command.risk_usd, exec.command.entry, exec.command.sl,
                          exec.symbol_info.trade_tick_value \div exec.symbol_info.trade_tick_size,
                          exec.symbol_info.trade_tick_size, exec.symbol_info.volume_step,
                          exec.symbol_info.volume_min, exec.symbol_info.volume_max)

\* the second command was sent with the volume of its own metadata (step
\* 0.01), which is neither the preview volume nor what the metadata of the
\* command before (step 0.1) gives
C22_Witness ==
  /\ exec.pc = "notify" /\ exec.n = 2
  /\ Len(exec.orders) = 1
  /\ exec.symbol_info.volume_step = 1
  /\ exec.earlier.volume_step = 10
  /\ exec.orders[1].volume = 28
  /\ exec.orders[1].volume # exec.command.volume

\* C23: when the terminal refuses the order, the error of the result and of
\* the failure notification is the terminal's rejection reason, verbatim,
\* and the order is not submitted again.
C23_RejectionVerbatim ==
  (exec.refused # "") =>
    /\ Count(exec.calls, "order_send") = 1
    /\ ~exec.result.success
    /\ exec.result.error = exec.refused
    /\ exec.notified # <<>> => exec.notified[1].error = exec.refused

\* C24: a command during which the health check failed and the reconnect
\* attempts were used up ends, when process_command returns, with the trade
\* status 'failed' and one failure notification, and the worker is back in
\* its poll loop.
C24_ConnectivityLostFails ==
  \A q \in QueueIds :
    (hist[q].lost /\ hist[q].returned) =>
      /\ hist[q].sends = 0 /\ ~hist[q].accepted
      /\ hist[q].notifs = 1
      /\ \E n \in notifs : n.trade_id = hist[q].trade_id /\ ~n.success
      /\ hist[q].trade_id # None => tradeStatus[hist[q].trade_id].status = "failed"

\* the place of an id in the order of the enqueue calls
EnqueuePlace(id) == CHOOSE i \in 1..Len(stamp.order) : stamp.order[i] = id

\* C25: list_pending returns the ids of the pending files in ascending
\* lexicographic order of their names, and of two pending commands enqueued
\* in different seconds the one enqueued earlier comes first.
C25_OldestFirst ==
  stamp.done =>
    /\ {stamp.listed[i] : i \in 1..Len(stamp.listed)} = stamp.files
    /\ \A i, j \in 1..Len(stamp.listed) :
         i < j =>
           /\ StrLess(QueueIdName(stamp.listed[i]), QueueIdName(stamp.listed[j]))
           /\ stamp.listed[i].second # stamp.listed[j].second =>
                EnqueuePlace(stamp.listed[i]) < EnqueuePlace(stamp.listed[j])

\* three commands enqueued at 00:00:09, 00:00:10 and 00:01:00 are listed in
\* that order
C25_Witness ==
  /\ stamp.done
  /\ Len(stamp.listed) = 3
  /\ stamp.listed[1].second = 9 /\ stamp.listed[2].second = 10 /\ stamp.listed[3].second = 60

\* two commands of one second are listed against the order of their enqueues
C25_WitnessSameSecond ==
  /\ stamp.done
  /\ Len(stamp.listed) = 2
  /\ stamp.listed[1].second = stamp.listed[2].second
  /\ EnqueuePlace(stamp.listed[1]) > EnqueuePlace(stamp.listed[2])

\* C26: get_pending returns the pending notifications in creation order: of
\* two notifications in the returned sequence the one enqueued earlier comes
\* first, whatever their recipient ids and trade ids are.
C26_CreationOrder ==
  (bpc = "for" /\ bidx = 1) =>
    \A i, j \in 1..Len(bsnap) : i < j => bsnap[i].serial < bsnap[j].serial

\* C27: mark_sent(id) returns true and removes exactly the notification of
\* the id when it is pending, and returns false leaving the store as it was
\* when it is not; a notification removed by mark_sent is never pending
\* again, and a mark_sent for an id that a mark_sent has removed returns
\* false.
C27_MarkSent ==
  /\ [][mark'.flip # mark.flip =>
          /\ IF nstore[mark'.id] # 0
             THEN mark'.ret /\ nstore' = [nstore EXCEPT ![mark'.id] = 0]
             ELSE ~mark'.ret /\ nstore' = nstore
          /\ mark'.id \in mark.okIds => ~mark'.ret]_vars
  /\ [](\A j \in mark.gone : ~NotifPending(j))

RECURSIVE SumLog(_)
SumLog(S) == IF S = {} THEN 0 ELSE LET x == CHOOSE y \in S : TRUE IN deqLog[x] + SumLog(S \ {x})

\* no enqueue and no dequeue call is in progress
QueueQuiet == enq.pc = "idle" /\ \A c \in Callers : deq[c].pc = "idle"

\* C28: after any sequence of enqueue and dequeue calls get_pending_count is
\* the length of list_pending and the number of enqueue calls that returned
\* an id minus the number of dequeue calls that returned an envelope; it is
\* 0 once every command enqueued has been dequeued.
C28_PendingCount ==
  QueueQuiet =>
    /\ GetPendingCount = Len(ListPending)
    /\ GetPendingCount = Cardinality(enqOk) - SumLog(QueueIds)
    /\ (\A id \in enqOk : deqLog[id] >= 1) => GetPendingCount = 0

\* two commands were enqueued and one of them was dequeued: one is pending
C28_Witness ==
  /\ QueueQuiet
  /\ Cardinality(enqOk) = 2
  /\ SumLog(QueueIds) = 1
  /\ GetPendingCount = 1

\* every command enqueued has been dequeued and the count is back to 0
C28_WitnessEmpty ==
  /\ QueueQuiet
  /\ Cardinality(enqOk) = 2
  /\ \A id \in enqOk : deqLog[id] = 1
  /\ GetPendingCount = 0

\* C31: once the stop signal has set running to false, the worker takes no
\* further command: every command pending from then on stays in the queue
\* directory.
C31_NoDequeueAfterStop ==
  [][(signalled /\ signalled') => PendingStems \subseteq PendingStems']_vars

\* the volume of the claim for a pip-priced instrument, in hundredths of a
\* lot: risk / (pipDistance * tickValue), pipDistance = |entry - stop| /
\* 0.0001, capped at the maximum, rounded down to the step, raised to the
\* minimum
PipVolume(command, info) ==
  LET num == command.risk_usd * TickValueScale
      den == Abs(command.entry - command.sl) * info.trade_tick_value
      floored == ((num * 100) \div (den * info.volume_step)) * info.volume_step
  IN IF num * 100 > info.volume_max * den THEN info.volume_max
     ELSE IF floored < info.volume_min THEN info.volume_min
     ELSE floored

\* C32: for an instrument with a tick size below 0.01 the volume of the
\* order sent is riskUsd / (pipDistance * tickValue), tickValue being the
\* tick value the terminal reports.
C32_PipRegimeVolume ==
  (exec.pc = "notify" /\ exec.orders # <<>> /\ exec.symbol_info.trade_tick_size < GoldTick) =>
    exec.orders[1].volume = PipVolume(exec.command, exec.symbol_info)

\* C33: a notification is enqueued for a trade only after the status of the
\* trade was persisted for the command, and with the success flag of that
\* status: true with 'filled', false with 'failed'.
C33_NotifyAfterPersist ==
  [][\A q \in QueueIds :
       hist'[q].notifs = hist[q].notifs + 1 =>
         LET tid == hist[q].trade_id
         IN /\ tid # None
            /\ hist[q].persists >= 1
            /\ [telegram_id |-> hist[q].telegram_id, trade_id |-> tid, success |-> result.success] \in notifs'
            /\ result.success <=> tradeStatus[tid].status = "filled"
            /\ ~result.success <=> tradeStatus[tid].status = "failed"]_vars

\* a failure notification is in the store and the trade is 'failed'
C33_Witness ==
  \E q \in QueueIds :
    /\ hist[q].notifs = 1 /\ hist[q].persists = 1
    /\ [telegram_id |-> hist[q].telegram_id, trade_id |-> hist[q].trade_id, success |-> FALSE] \in notifs
    /\ tradeStatus[hist[q].trade_id].status = "failed"

\* a success notification is in the store and the trade is 'filled'
C33_WitnessFilled ==
  \E q \in QueueIds :
    /\ hist[q].notifs = 1 /\ hist[q].persists = 1
    /\ [telegram_id |-> hist[q].telegram_id, trade_id |-> hist[q].trade_id, success |-> TRUE] \in notifs
    /\ tradeStatus[hist[q].trade_id].status = "filled"

\* C34: after a connect() call that returns failure the adapter's state is
\* Disconnected (connected is false), whatever it was before the call.
C34_FailedConnectDisconnects ==
  (lastOp.op = "connect" /\ ~lastOp.ok) => ~connected

\* C35: whenever ensure_connected() returns true the adapter's connected flag
\* is true.
C35_EnsuredMeansConnected ==
  (lastOp.op = "ensure_connected" /\ lastOp.ok) => connected

(***************************************************************************)
(* The adapter with callers that also pass the credentials to connect(),   *)
(* as TradeEngineWorker.connect_mt5(login, password, server) does.         *)
(***************************************************************************)
\* connect(login, password, server, force_reconnect) with the credentials
\* given as arguments: lines 53-58 read the environment only for an argument
\* that is None
OpConnectAs ==
  \E login \in LoginArgs \ {None}, force \in BOOLEAN, a \in ConnAnswers :
    LET r == ConnectFrom(AdapterState, login, TRUE, force, a)
    IN Returned(r.st, [NoOp EXCEPT !.op = "connect", !.login = login, !.hasPw = TRUE,
                                   !.force = force, !.alive = a.alive, !.ok = r.ok,
                                   !.calls = r.calls,
                                   !.connects = <<[force |-> force, ok |-> r.ok]>>])

IdentityNext ==
  \/ AdapterNext
  \/ OpConnectAs /\ UNCHANGED adapterRest

IdentitySpec == AdapterSpecInit /\ [][IdentityNext]_vars

\* C36: a reconnect made by ensure_connected opens the session on the account
\* of the last successful connect (termAcct, the account the session was on
\* when the health check failed), also when that account was passed to
\* connect() as an argument.
C36_ReconnectSameIdentity ==
  [][(lastOp'.op = "ensure_connected" /\ lastOp'.ok /\ lastOp'.connects # <<>>
      /\ termAcct # None)
     => termAcct' = termAcct]_vars

\* C37: every successful NotificationQueue.enqueue adds one pending
\* notification and replaces none: as long as no mark_sent has been called,
\* get_pending returns as many notifications as enqueue calls have returned.
C37_EnqueueAddsOne ==
  mark = NoMark => Len(GetPending) = Cardinality(nqueued)

\* C38: every result execute_trade_command returns is well formed: success
\* comes with a ticket, no error, and exactly one order sent for the command
\* and accepted by the terminal; failure comes with an error and no ticket.
C38_ResultWellFormed ==
  exec.pc = "notify" =>
    /\ exec.result.success =>
         /\ exec.result.ticket # None
         /\ exec.result.error = ""
         /\ Count(exec.calls, "order_send") = 1
         /\ exec.accepted = 1
    /\ ~exec.result.success =>
         /\ exec.result.error # ""
         /\ exec.result.ticket = None

\* the terminal has accepted the order of the second command
C38_Witness ==
  exec.pc = "notify" /\ exec.n = 2 /\ exec.result.success /\ exec.accepted = 1

\* the order was sent and the terminal did not answer
C38_WitnessNoAnswer ==
  /\ exec.pc = "notify" /\ ~exec.result.success
  /\ exec.orders # <<>> /\ exec.refused = "" /\ exec.accepted = 0

(***************************************************************************)
(* The pipeline with a worker process that is never killed and takes its   *)
(* next step whenever it has one: run() is a sequential program, every     *)
(* call it makes returns, and between two polls it only sleeps             *)
(* poll_interval seconds (line 279).  Nothing is assumed of the producer   *)
(* or of the stop signals.                                                 *)
(***************************************************************************)
WorkerStep ==
  \/ DeqExists(WorkerCaller) /\ UNCHANGED <<workerVars, auxVars>>
  \/ DeqRead(WorkerCaller) /\ UNCHANGED <<workerVars, auxVars>>
  \/ DeqUnlink(WorkerCaller) /\ UNCHANGED <<workerVars, auxVars>>
  \/ RunDbConnect /\ UNCHANGED auxVars
  \/ RunConnectMt5 /\ UNCHANGED auxVars
  \/ RunAcctHealth /\ UNCHANGED auxVars
  \/ RunAcctReconnect /\ UNCHANGED auxVars
  \/ RunSetRunning /\ UNCHANGED auxVars
  \/ RunWhile /\ UNCHANGED auxVars
  \/ RunListPending /\ UNCHANGED auxVars
  \/ RunFor /\ UNCHANGED auxVars
  \/ RunDequeued /\ UNCHANGED auxVars
  \/ RunSleep /\ UNCHANGED auxVars
  \/ RunFinally /\ UNCHANGED auxVars
  \/ ExecHealthA /\ UNCHANGED auxVars
  \/ ExecReconnectA /\ UNCHANGED auxVars
  \/ ExecSymbol /\ UNCHANGED auxVars
  \/ ExecHealthB /\ UNCHANGED auxVars
  \/ ExecReconnectB /\ UNCHANGED auxVars
  \/ ExecOrderSend /\ UNCHANGED auxVars
  \/ ProcUpdate /\ UNCHANGED auxVars
  \/ ProcNotify /\ UNCHANGED auxVars
  \/ ProcExcept /\ UNCHANGED auxVars

FairWorkerNext ==
  \/ \E t \in Templates : nextId < MaxWorkerCmds /\ EnqueueStart(t) /\ UNCHANGED <<workerVars, auxVars>>
  \/ EnqueueOpen /\ UNCHANGED <<workerVars, auxVars>>
  \/ EnqueueDump /\ UNCHANGED <<workerVars, auxVars>>
  \/ EnqueueRename /\ UNCHANGED <<workerVars, auxVars>>
  \/ EnqueueReturn /\ UNCHANGED <<workerVars, auxVars>>
  \/ EnqueueExcept /\ UNCHANGED <<workerVars, auxVars>>
  \/ WorkerStep
  \/ Signal /\ UNCHANGED auxVars

FairWorkerSpec == WorkerSpecInit /\ [][FairWorkerNext]_vars /\ WF_vars(WorkerStep)

\* the command of queue entry q has left the queue, process_command has
\* returned for it, and its trade, if it names one, is 'filled' or 'failed'
Settled(q) ==
  /\ ~Exists(JsonName(q))
  /\ hist[q].returned
  /\ hist[q].trade_id # None => tradeStatus[hist[q].trade_id].status \in {"filled", "failed"}

\* what does hold of such a run: every command in the queue is dequeued and
\* process_command returns for it, and a trade of which some ledger update
\* went through is 'filled' or 'failed'
EveryCommandProcessed ==
  \A q \in QueueIds :
    \/ <>signalled
    \/ <>(wpc = "returned")
    \/ (Exists(JsonName(q)) ~>
          (~Exists(JsonName(q)) /\ hist[q].returned /\ (hist[q].persists = 0 \/ Settled(q))))

\* C39: in a run where the worker is never signalled and never returns from
\* run(), every command in the queue is eventually dequeued and processed,
\* and its trade recorded as 'filled' or 'failed'.
C39_EveryCommandSettles ==
  \A q \in QueueIds :
    \/ <>signalled
    \/ <>(wpc = "returned")
    \/ (Exists(JsonName(q)) ~> Settled(q))
====
